---- MODULE Spec2Model ----
(***************************************************************************)
(* Collection-and-scoring pipeline of the Node.js framework collector      *)
(* (src/main.py, class NodeJSFrameworkCollector), and the paginated views   *)
(* of the dashboard that reads its CSV export (src/app.py).                *)
(*                                                                         *)
(* Conventions of the model                                                *)
(*  - a Python dict is a function with a domain of strings (a record);     *)
(*    the empty dict is << >>; dict.get(k, d) is Get(dict, k, d);           *)
(*  - None is the record NoneVal;                                          *)
(*  - an ISO timestamp string is a record: Stamp(h) for a well-formed one  *)
(*    h hours after the epoch of the model, BadStamp for one that          *)
(*    datetime.fromisoformat rejects, EmptyStamp for '';                   *)
(*  - a str whose characters the code reads is Str(chars), chars being a   *)
(*    sequence of one-character strings;                                   *)
(*  - a str that the code only passes on or joins is a TLA+ string;        *)
(*  - release_frequency is held in tenths of a day, releases_per_year in   *)
(*    hundredths, documentation scores in tenths of a point: these are    *)
(*    the decimals that round(x, 1) and round(x, 2) keep; the floats that  *)
(*    round() is applied to are computed bit by bit as IEEE-754 doubles;   *)
(*  - a text of which the code reads only the length is [len |-> n];       *)
(*  - the answers of the registry, of GitHub and of the other endpoints    *)
(*    are chosen by the actions from sets of sample answers; an answer to  *)
(*    a request is a response with a status and a JSON body, or an          *)
(*    exception;                                                           *)
(*  - get_github_stats leaves a trace of its requests and sleeps;          *)
(*  - `call` holds the last call made on its own of a scoring function, a  *)
(*    fetcher, an exporter or a view: its arguments and what came of it;   *)
(*  - a request parameter and a cell of the CSV file are sequences of      *)
(*    characters, an empty cell is NaN.                                    *)
(***************************************************************************)
EXTENDS Integers, Sequences, FiniteSets, TLC

VARIABLES
    frameworks,          \* self.frameworks: the accumulator
    processed_names,     \* self.processed_names
    pc,                  \* position of collect_frameworks
    min_count,           \* argument of the current collect_frameworks call
    term_idx,            \* index of the next search term
    all_packages,        \* local all_packages
    seen_names,          \* local seen_names
    packages_to_process, \* local packages_to_process
    idx,                 \* index of the next candidate of the processing loop
    runs,                \* number of collect_frameworks calls started
    surfaced,            \* history: the payloads each name was surfaced with, this seeding
    attempts,            \* history: what each iteration of the processing loop did
    now,                 \* wall clock, in hours
    call                 \* last call made on its own: arguments and result

vars == << frameworks, processed_names, pc, min_count, term_idx, all_packages,
           seen_names, packages_to_process, idx, runs, surfaced,
           attempts, now, call >>

orchVars == << frameworks, processed_names, pc, min_count, term_idx, all_packages,
               seen_names, packages_to_process, idx, runs, surfaced,
               attempts >>

----------------------------------------------------------------------------
(* Python values *)

NoneVal == [kind |-> "None"]

\* a Python str, by its characters
Str(chars) == [kind |-> "str", chars |-> chars]

Get(d, k, default) == IF k \in DOMAIN d THEN d[k] ELSE default

\* `if not github_stats`, `if repo_data and ...`: None and the empty dict are falsy
NoStats(github_stats) == github_stats = NoneVal \/ github_stats = << >>

Stamp(h) == [kind |-> "ts", h |-> h]

BadStamp == [kind |-> "bad"]

\* the empty string '' where a timestamp is expected
EmptyStamp == [kind |-> "empty"]

Min(a, b) == IF a < b THEN a ELSE b

SetMax(S) == CHOOSE m \in S : \A e \in S : e <= m

SetMin(S) == CHOOSE m \in S : \A e \in S : m <= e

----------------------------------------------------------------------------
(* Python float arithmetic: IEEE-754 binary64, round to nearest, ties to  *)
(* even.  A positive float is [M |-> mantissa, e |-> exponent], of value   *)
(* M * 2^e with 2^52 <= M <= 2^53.  A mantissa is a natural number held as *)
(* four digits of base 2^20, least significant first.                      *)

BigOf(n) == << n % 1048576, n \div 1048576, 0, 0 >>

\* 2 * x + bit
BigDouble(x, bit) ==
    LET t1 == 2 * x[1] + bit
        t2 == 2 * x[2] + t1 \div 1048576
        t3 == 2 * x[3] + t2 \div 1048576
        t4 == 2 * x[4] + t3 \div 1048576
    IN  << t1 % 1048576, t2 % 1048576, t3 % 1048576, t4 >>

\* x >= y
BigGE(x, y) ==
    IF x[4] # y[4] THEN x[4] > y[4]
    ELSE IF x[3] # y[3] THEN x[3] > y[3]
    ELSE IF x[2] # y[2] THEN x[2] > y[2]
    ELSE x[1] >= y[1]

\* x - y, for x >= y
BigSub(x, y) ==
    LET t1 == x[1] - y[1]
        b1 == IF t1 < 0 THEN 1 ELSE 0
        t2 == x[2] - y[2] - b1
        b2 == IF t2 < 0 THEN 1 ELSE 0
        t3 == x[3] - y[3] - b2
        b3 == IF t3 < 0 THEN 1 ELSE 0
    IN  << t1 + b1 * 1048576, t2 + b2 * 1048576, t3 + b3 * 1048576,
           x[4] - y[4] - b3 >>

\* x * k, for a small k
BigTimes(x, k) ==
    LET t1 == x[1] * k
        t2 == x[2] * k + t1 \div 1048576
        t3 == x[3] * k + t2 \div 1048576
        t4 == x[4] * k + t3 \div 1048576
    IN  << t1 % 1048576, t2 % 1048576, t3 % 1048576, t4 >>

\* x \div 2
BigHalve(x) ==
    << (x[1] + (x[2] % 2) * 1048576) \div 2, (x[2] + (x[3] % 2) * 1048576) \div 2,
       (x[3] + (x[4] % 2) * 1048576) \div 2, x[4] \div 2 >>

BigOdd(x) == x[1] % 2 = 1

\* x + 1 when round is true
BigRoundUp(x, round) ==
    IF ~round THEN x
    ELSE IF x[1] + 1 < 1048576 THEN << x[1] + 1, x[2], x[3], x[4] >>
    ELSE IF x[2] + 1 < 1048576 THEN << 0, x[2] + 1, x[3], x[4] >>
    ELSE IF x[3] + 1 < 1048576 THEN << 0, 0, x[3] + 1, x[4] >>
    ELSE << 0, 0, 0, x[4] + 1 >>

\* the value of a number below 2^31
BigToInt(x) == x[1] + 1048576 * x[2]

\* One step of binary long division of R by divisor, R < divisor: M holds
\* the k significant quotient bits found so far, R the remainder, and the
\* quotient is M * 2^e; nothing changes once 53 bits are found.
DivideStep(s) ==
    IF s.k >= 53 THEN s
    ELSE LET twice == BigDouble(s.R, 0)
             bit == IF BigGE(twice, s.divisor) THEN 1 ELSE 0
         IN  [M |-> BigDouble(s.M, bit),
              R |-> IF bit = 1 THEN BigSub(twice, s.divisor) ELSE twice,
              k |-> IF s.k > 0 \/ bit = 1 THEN s.k + 1 ELSE s.k,
              e |-> s.e - 1,
              divisor |-> s.divisor]

DivideSteps(s) ==
    DivideStep(DivideStep(DivideStep(DivideStep(
    DivideStep(DivideStep(DivideStep(DivideStep(s))))))))

RECURSIVE DivideLoop(_)
DivideLoop(s) == IF s.k >= 53 THEN s ELSE DivideLoop(DivideSteps(s))

\* The float nearest to R * 2^e / divisor, for 0 < R < divisor: 53 quotient
\* bits, then round to nearest on the remainder, a tie to the even mantissa.
Divide(R, divisor, e) ==
    LET s == DivideLoop([M |-> BigOf(0), R |-> R, k |-> 0, e |-> e,
                         divisor |-> divisor])
        twice == BigDouble(s.R, 0)
    IN  [M |-> BigRoundUp(s.M, (BigGE(twice, divisor) /\ twice # divisor)
                                   \/ (twice = divisor /\ BigOdd(s.M))),
         e |-> s.e]

\* int / int: the float nearest to a / b, for integers 0 < a < 2^20 and
\* 0 < b < 2^11 (a / b is a * 2^20 / (b * 2^20))
FloatQuotient(a, b) == Divide(BigOf(a), << 0, b, 0, 0 >>, 20)

\* int / float: the float nearest to n / x, for an integer 0 < n < 2^12
\* (n / (M * 2^e) is n * 2^40 * 2^(-e-40) / M, and n * 2^40 < 2^52 <= M)
FloatInverse(n, x) == Divide(<< 0, 0, n, 0 >>, x.M, 0 - x.e - 40)

\* One step of P / 2^s: half is the last bit shifted out, sticky tells
\* whether a 1 was shifted out before it.
ShiftStep(s) ==
    IF s.s <= 0 THEN s
    ELSE [P |-> BigHalve(s.P), s |-> s.s - 1, half |-> BigOdd(s.P),
          sticky |-> s.sticky \/ s.half]

ShiftSteps(s) ==
    ShiftStep(ShiftStep(ShiftStep(ShiftStep(
    ShiftStep(ShiftStep(ShiftStep(ShiftStep(s))))))))

RECURSIVE ShiftLoop(_)
ShiftLoop(s) == IF s.s <= 0 THEN s ELSE ShiftLoop(ShiftSteps(s))

\* round(x, ndigits) in units of 10^-ndigits, scale being 10^ndigits: the
\* exact value scale * M * 2^e of the float, to the nearest integer, an exact
\* tie to the even one (what Python's round does for a float)
Round(x, scale) ==
    LET s == ShiftLoop([P |-> BigTimes(x.M, scale), s |-> 0 - x.e,
                        half |-> FALSE, sticky |-> FALSE])
    IN  BigToInt(s.P) + (IF s.half /\ (s.sticky \/ BigOdd(s.P)) THEN 1 ELSE 0)

----------------------------------------------------------------------------
(* calculate_release_frequency *)

\* versions = {k: v for k, v in time_data.items() if k not in ['created', 'modified']}
DatedVersions(time_data) == DOMAIN time_data \ {"created", "modified"}

\* (dates[-1] - dates[0]).days of the sorted dates
TotalDays(time_data) ==
    LET hs == {time_data[k].h : k \in DatedVersions(time_data)}
    IN  (SetMax(hs) - SetMin(hs)) \div 24

\* the days are divided by the number of versions, not of intervals
calculate_release_frequency_OffByOne(time_data) ==
    LET versions == DatedVersions(time_data)
        n == Cardinality(versions)
    IN  IF n < 2
        THEN [release_frequency |-> 0, releases_per_year |-> 0]
        ELSE IF \E k \in versions : time_data[k].kind # "ts"
        THEN [release_frequency |-> 0, releases_per_year |-> 0, total_releases |-> 0]
        ELSE LET total_days == TotalDays(time_data)
                 num_releases == n
             IN  IF total_days > 0
                 THEN LET avg_days_between == FloatQuotient(total_days, num_releases)
                          releases_per_year == FloatInverse(365, avg_days_between)
                      IN  [release_frequency |-> Round(avg_days_between, 10),
                           releases_per_year |-> Round(releases_per_year, 100),
                           total_releases |-> n]
                 ELSE [release_frequency |-> 0, releases_per_year |-> 0,
                       total_releases |-> n]

calculate_release_frequency(time_data) ==
    LET versions == DatedVersions(time_data)
        n == Cardinality(versions)
    IN  IF n < 2
        THEN [release_frequency |-> 0, releases_per_year |-> 0]
        ELSE IF \E k \in versions : time_data[k].kind # "ts"
        THEN \* fromisoformat raises: the bare except
             [release_frequency |-> 0, releases_per_year |-> 0, total_releases |-> 0]
        ELSE LET total_days == TotalDays(time_data)
                 num_releases == n - 1
             IN  IF total_days > 0
                 THEN LET avg_days_between == FloatQuotient(total_days, num_releases)
                          releases_per_year == FloatInverse(365, avg_days_between)
                      IN  [release_frequency |-> Round(avg_days_between, 10),
                           releases_per_year |-> Round(releases_per_year, 100),
                           total_releases |-> n]
                 ELSE [release_frequency |-> 0, releases_per_year |-> 0,
                       total_releases |-> n]

----------------------------------------------------------------------------
(* assess_documentation_quality: the score in tenths of a point *)

\* len(readme) of a README text; the code reads nothing else of it, so a
\* README is held as [len |-> its length]
StrLen(text) == text.len

\* a package without README loses a point
ReadmePoints_Penalty(package_data) ==
    LET readme == Get(package_data, "readme", [len |-> 0])
    IN  IF StrLen(readme) > 0
        THEN 10 + (IF StrLen(readme) > 500 THEN 10 ELSE 0)
                + (IF StrLen(readme) > 2000 THEN 10 ELSE 0)
        ELSE -10

ReadmePoints(package_data) ==
    LET readme == Get(package_data, "readme", [len |-> 0])
    IN  IF StrLen(readme) > 0
        THEN 10 + (IF StrLen(readme) > 500 THEN 10 ELSE 0)
                + (IF StrLen(readme) > 2000 THEN 10 ELSE 0)
        ELSE 0

\* three keywords are enough
assess_documentation_quality_ThreeKeywords(repo_data, package_data) ==
    LET s1 == ReadmePoints(package_data)
        s2 == s1 + (IF Get(package_data, "homepage", "") # "" THEN 5 ELSE 0)
        s3 == s2 + (IF ~NoStats(repo_data) /\ Get(repo_data, "has_wiki", FALSE)
                    THEN 5 ELSE 0)
        s4 == s3 + (IF ~NoStats(repo_data) /\ Get(repo_data, "has_pages", FALSE)
                    THEN 5 ELSE 0)
        s5 == s4 + (IF Len(Get(package_data, "keywords", << >>)) >= 3 THEN 5 ELSE 0)
    IN  Min(50, s5)

assess_documentation_quality(repo_data, package_data) ==
    LET s1 == ReadmePoints(package_data)
        s2 == s1 + (IF Get(package_data, "homepage", "") # "" THEN 5 ELSE 0)
        s3 == s2 + (IF ~NoStats(repo_data) /\ Get(repo_data, "has_wiki", FALSE)
                    THEN 5 ELSE 0)
        s4 == s3 + (IF ~NoStats(repo_data) /\ Get(repo_data, "has_pages", FALSE)
                    THEN 5 ELSE 0)
        s5 == s4 + (IF Len(Get(package_data, "keywords", << >>)) > 3 THEN 5 ELSE 0)
    IN  Min(50, s5)

----------------------------------------------------------------------------
(* calculate_activity_score *)

\* Recent commit: last_commit_date is '' (falsy), a malformed string (the
\* inner try/except passes) or a timestamp; days_since is the .days of
\* datetime.now(tz) - last_commit, the floor of the difference in days.
RecencyPoints(github_stats, clock) ==
    LET last_commit_date == Get(github_stats, "last_commit_date", EmptyStamp)
    IN  IF last_commit_date = EmptyStamp THEN 0
        ELSE IF last_commit_date.kind # "ts" THEN 0
        ELSE LET days_since == (clock - last_commit_date.h) \div 24
             IN  IF days_since < 90 THEN 30
                 ELSE IF days_since < 180 THEN 20
                 ELSE IF days_since < 365 THEN 10
                 ELSE 0

ContributorPoints(github_stats) ==
    LET contributors == Get(github_stats, "contributors_count", 0)
    IN  IF contributors > 50 THEN 20
        ELSE IF contributors > 20 THEN 15
        ELSE IF contributors > 10 THEN 10
        ELSE IF contributors > 5 THEN 5
        ELSE 0

PullRequestPoints(github_stats) ==
    LET prs == Get(github_stats, "open_pull_requests", 0)
    IN  IF prs > 20 THEN 15
        ELSE IF prs > 10 THEN 10
        ELSE IF prs > 5 THEN 5
        ELSE 0

\* releases_per_year is held in hundredths
ReleasePoints(release_frequency) ==
    LET releases_per_year == Get(release_frequency, "releases_per_year", 0)
    IN  IF releases_per_year > 1200 THEN 20
        ELSE IF releases_per_year > 600 THEN 15
        ELSE IF releases_per_year > 300 THEN 10
        ELSE IF releases_per_year > 100 THEN 5
        ELSE 0

\* the star thresholds compared with >=
StarPoints_Inclusive(github_stats) ==
    LET stars == Get(github_stats, "stars", 0)
    IN  IF stars >= 10000 THEN 15
        ELSE IF stars >= 5000 THEN 12
        ELSE IF stars >= 1000 THEN 9
        ELSE IF stars >= 500 THEN 6
        ELSE IF stars >= 100 THEN 3
        ELSE 0

StarPoints(github_stats) ==
    LET stars == Get(github_stats, "stars", 0)
    IN  IF stars > 10000 THEN 15
        ELSE IF stars > 5000 THEN 12
        ELSE IF stars > 1000 THEN 9
        ELSE IF stars > 500 THEN 6
        ELSE IF stars > 100 THEN 3
        ELSE 0

\* absent statistics are reported as -1
calculate_activity_score_Sentinel(github_stats, release_frequency, clock) ==
    IF NoStats(github_stats) THEN -1
    ELSE Min(100, RecencyPoints(github_stats, clock)
                  + ContributorPoints(github_stats)
                  + PullRequestPoints(github_stats)
                  + ReleasePoints(release_frequency)
                  + StarPoints(github_stats))

\* the score is computed from what there is when the statistics are absent
calculate_activity_score_Partial(github_stats, release_frequency, clock) ==
    LET stats == IF NoStats(github_stats) THEN << >> ELSE github_stats
    IN  Min(100, RecencyPoints(stats, clock)
                 + ContributorPoints(stats)
                 + PullRequestPoints(stats)
                 + ReleasePoints(release_frequency)
                 + StarPoints(stats))

calculate_activity_score(github_stats, release_frequency, clock) ==
    IF NoStats(github_stats) THEN 0
    ELSE Min(100, RecencyPoints(github_stats, clock)
                  + ContributorPoints(github_stats)
                  + PullRequestPoints(github_stats)
                  + ReleasePoints(release_frequency)
                  + StarPoints(github_stats))

----------------------------------------------------------------------------
(* categorize_framework *)

UpperChars == <<"A","B","C","D","E","F","G","H","I","J","K","L","M","N","O","P","Q","R","S","T","U","V","W","X","Y","Z">>

LowerChars == <<"a","b","c","d","e","f","g","h","i","j","k","l","m","n","o","p","q","r","s","t","u","v","w","x","y","z">>

\* str.lower() on one character
LowerChar(c) ==
    IF \E i \in 1..Len(UpperChars) : UpperChars[i] = c
    THEN LowerChars[CHOOSE i \in 1..Len(UpperChars) : UpperChars[i] = c]
    ELSE c

\* the text is not lowercased
Lower_Missing(text) == text

\* str.lower()
Lower(text) == [i \in 1..Len(text) |-> LowerChar(text[i])]

\* `word in text` on strings
Contains(text, word) ==
    \E i \in 1..(Len(text) - Len(word) + 1) :
        \A j \in 1..Len(word) : text[i + j - 1] = word[j]

\* ' '.join(keywords), as characters
RECURSIVE JoinSpace(_)
JoinSpace(keywords) ==
    IF Len(keywords) = 0 THEN << >>
    ELSE IF Len(keywords) = 1 THEN keywords[1].chars
    ELSE keywords[1].chars \o <<" ">> \o JoinSpace(Tail(keywords))

\* the twelve `if any(word in combined_text for word in [...])` rules, in
\* the order of the source
CategoryRules == <<
    [label |-> "Web Framework", words |-> <<
        <<"w","e","b"," ","f","r","a","m","e","w","o","r","k">>,
        <<"h","t","t","p"," ","s","e","r","v","e","r">>,
        <<"w","e","b"," ","s","e","r","v","e","r">>,
        <<"e","x","p","r","e","s","s">>,
        <<"w","e","b"," ","a","p","p","l","i","c","a","t","i","o","n">> >>],
    [label |-> "API Framework", words |-> <<
        <<"a","p","i">>,
        <<"r","e","s","t">>,
        <<"r","e","s","t","f","u","l">>,
        <<"g","r","a","p","h","q","l">>,
        <<"a","p","i"," ","f","r","a","m","e","w","o","r","k">> >>],
    [label |-> "Real-time", words |-> <<
        <<"r","e","a","l","t","i","m","e">>,
        <<"w","e","b","s","o","c","k","e","t">>,
        <<"s","o","c","k","e","t">>,
        <<"r","e","a","l","-","t","i","m","e">>,
        <<"w","s">> >>],
    [label |-> "Full-stack", words |-> <<
        <<"f","u","l","l","s","t","a","c","k">>,
        <<"f","u","l","l","-","s","t","a","c","k">>,
        <<"i","s","o","m","o","r","p","h","i","c">>,
        <<"u","n","i","v","e","r","s","a","l">>,
        <<"s","s","r">>,
        <<"s","e","r","v","e","r","-","s","i","d","e"," ","r","e","n","d","e","r","i","n","g">> >>],
    [label |-> "Microservices", words |-> <<
        <<"m","i","c","r","o","s","e","r","v","i","c","e">>,
        <<"m","i","c","r","o","-","s","e","r","v","i","c","e">>,
        <<"m","i","c","r","o","s","e","r","v","i","c","e","s">>,
        <<"d","i","s","t","r","i","b","u","t","e","d">> >>],
    [label |-> "Testing", words |-> <<
        <<"t","e","s","t">>,
        <<"t","e","s","t","i","n","g">>,
        <<"m","o","c","h","a">>,
        <<"j","e","s","t">>,
        <<"c","h","a","i">>,
        <<"j","a","s","m","i","n","e">>,
        <<"u","n","i","t"," ","t","e","s","t">> >>],
    [label |-> "Build Tool", words |-> <<
        <<"b","u","i","l","d">>,
        <<"b","u","n","d","l","e","r">>,
        <<"w","e","b","p","a","c","k">>,
        <<"c","o","m","p","i","l","e","r">>,
        <<"r","o","l","l","u","p">>,
        <<"v","i","t","e">>,
        <<"b","u","i","l","d"," ","t","o","o","l">> >>],
    [label |-> "Database/ORM", words |-> <<
        <<"o","r","m">>,
        <<"d","a","t","a","b","a","s","e">>,
        <<"m","o","n","g","o","d","b">>,
        <<"m","y","s","q","l">>,
        <<"p","o","s","t","g","r","e","s">>,
        <<"s","e","q","u","e","l","i","z","e">>,
        <<"t","y","p","e","o","r","m">> >>],
    [label |-> "Authentication", words |-> <<
        <<"a","u","t","h">>,
        <<"a","u","t","h","e","n","t","i","c","a","t","i","o","n">>,
        <<"p","a","s","s","p","o","r","t">>,
        <<"j","w","t">>,
        <<"o","a","u","t","h">> >>],
    [label |-> "Logging", words |-> <<
        <<"l","o","g">>,
        <<"l","o","g","g","i","n","g">>,
        <<"w","i","n","s","t","o","n">>,
        <<"m","o","r","g","a","n">>,
        <<"l","o","g","g","e","r">> >>],
    [label |-> "Utility", words |-> <<
        <<"u","t","i","l","i","t","y">>,
        <<"h","e","l","p","e","r">>,
        <<"u","t","i","l","s">>,
        <<"t","o","o","l">> >>],
    [label |-> "CLI", words |-> <<
        <<"c","l","i">>,
        <<"c","o","m","m","a","n","d"," ","l","i","n","e">>,
        <<"t","e","r","m","i","n","a","l">>,
        <<"c","o","m","m","a","n","d","e","r">> >>]
>>

\* combined_text = f"{description} {keywords_str} {name}"
CombinedText(package_data) ==
    LET description == Lower(Get(package_data, "description", Str(<< >>)).chars)
        keywords == Get(package_data, "keywords", << >>)
        keywords_str == IF Len(keywords) > 0 THEN Lower(JoinSpace(keywords)) ELSE << >>
        name == Lower(Get(package_data, "name", Str(<< >>)).chars)
    IN  description \o <<" ">> \o keywords_str \o <<" ">> \o name

\* any(word in combined_text for word in words)
AnyWordIn(words, combined_text) ==
    \E w \in 1..Len(words) : Contains(combined_text, words[w])

\* the categories list after the first k rules have run
RECURSIVE CategoriesAfter(_, _)
CategoriesAfter(k, combined_text) ==
    IF k = 0 THEN << >>
    ELSE LET categories == CategoriesAfter(k - 1, combined_text)
         IN  IF AnyWordIn(CategoryRules[k].words, combined_text)
             THEN Append(categories, CategoryRules[k].label)
             ELSE categories

categorize_framework(package_data) ==
    LET categories == CategoriesAfter(Len(CategoryRules), CombinedText(package_data))
    IN  IF Len(categories) > 0 THEN categories ELSE <<"Other">>

----------------------------------------------------------------------------
(* Inputs of the scoring functions *)

MaxTicks == 1

\* the wall clock when the collector is constructed: day 400 of the model
NowStart == 400 * 24

VersionLabels == {"1.0.0", "1.1.0", "2.0.0", "3.0.0"}

\* hours 0 and 12, days 1, 8, 100 and 200, and a malformed timestamp
StampSamples == {Stamp(0), Stamp(12), Stamp(24), Stamp(192), Stamp(2400), Stamp(4800), BadStamp}

Sentinels == ("created" :> Stamp(0)) @@ ("modified" :> Stamp(2400))

TimeDataSamples ==
    LET dated == UNION {[L -> StampSamples] : L \in SUBSET VersionLabels}
    IN  dated \cup {td @@ Sentinels : td \in dated}

\* key |-> value when present, the empty dict otherwise
Opt(present, key, value) == IF present THEN key :> value ELSE << >>

RepoFlagSamples ==
    {NoneVal, << >>} \cup {[has_wiki |-> w, has_pages |-> p] : w, p \in BOOLEAN}

ReadmeLengths == {0, 1, 500, 501, 2000, 2001}

KeywordList(n) == [i \in 1..n |-> Str(<<"k">>)]

DocPackageSamples ==
    {Opt(r >= 0, "readme", [len |-> r]) @@ Opt(h # "absent", "homepage", h)
        @@ Opt(k >= 0, "keywords", KeywordList(k)) :
        r \in ReadmeLengths \cup {-1},
        h \in {"absent", "", "https://example.org"},
        k \in {-1, 0, 3, 4}}

\* last commit relative to NowStart: one day ahead, 10, 89, 90, 179, 180,
\* 364 and 365 days back, '' and a malformed string
CommitSamples ==
    {Stamp(NowStart - 24 * d) : d \in {-1, 10, 89, 90, 179, 180, 364, 365}}
        \cup {EmptyStamp, BadStamp}

\* the repository of the worked example of the specification: 12000 stars,
\* 60 contributors, 25 open pull requests, last commit 10 days back
ExampleStats ==
    [last_commit_date |-> Stamp(NowStart - 24 * 10), contributors_count |-> 60,
     open_pull_requests |-> 25, stars |-> 12000]

\* every band boundary of every input, and absent stats
StatsSamples ==
    {[last_commit_date |-> c, contributors_count |-> n, open_pull_requests |-> p,
      stars |-> s] :
        c \in CommitSamples,
        n \in {5, 6, 10, 11, 20, 21, 50, 51},
        p \in {5, 6, 10, 11, 20, 21},
        s \in {100, 101, 500, 501, 1000, 1001, 5000, 5001, 10000, 10001}}
      \cup {ExampleStats, NoneVal, << >>}

\* release-frequency results handed to calculate_activity_score
ReleaseSamples ==
    {[release_frequency |-> 0, releases_per_year |-> r, total_releases |-> 2] :
        r \in {100, 101, 300, 301, 600, 601, 1200, 1201, 1500}}
      \cup {[release_frequency |-> 0, releases_per_year |-> 0]}

\* "A fast REST API framework with websocket support"
ExampleDescription ==
    Str(<<"A"," ","f","a","s","t"," ","R","E","S","T"," ","A","P","I"," ","f","r","a","m","e","w","o","r","k"," ","w","i","t","h"," ","w","e","b","s","o","c","k","e","t"," ","s","u","p","p","o","r","t">>)

DescriptionSamples == {
    ExampleDescription,
    Str(<<"P","l","a","i","n"," ","m","o","d","u","l","e">>),
    Str(<<"E","x","p","r","e","s","s"," ","w","e","b"," ","s","e","r","v","e","r">>),
    Str(<<"U","n","i","t"," ","T","E","S","T"," ","r","u","n","n","e","r">>),
    Str(<<"S","S","R"," ","b","u","i","l","d"," ","t","o","o","l">>),
    Str(<<"J","W","T"," ","O","A","u","t","h">>),
    Str(<<"M","o","n","g","o","D","B"," ","O","R","M">>),
    Str(<<"L","o","g","g","e","r"," ","C","L","I">>),
    Str(<<"D","i","s","t","r","i","b","u","t","e","d"," ","h","e","l","p","e","r">>),
    Str(<<"c","o","m","m","a","n","d">>) }

KeywordSamples == {
    <<>>,
    <<Str(<<"u","t","i","l","i","t","y">>)>>,
    <<Str(<<"l","i","n","e">>), Str(<<"t","e","r","m","i","n","a","l">>)>>,
    <<Str(<<"M","i","c","r","o","-","S","e","r","v","i","c","e">>), Str(<<"B","u","n","d","l","e","r">>)>> }

NameSamples == {
    Str(<<"x">>),
    Str(<<"k","o","a">>),
    Str(<<"n","e","w","s">>) }

\* each of description, keywords and name present or not
CategoryPackageSamples ==
    {Opt(hasd, "description", d) @@ Opt(hask, "keywords", k) @@ Opt(hasn, "name", n) :
        hasd \in BOOLEAN, d \in DescriptionSamples,
        hask \in BOOLEAN, k \in KeywordSamples,
        hasn \in BOOLEAN, n \in NameSamples}

----------------------------------------------------------------------------
(* The scoring functions called on their own *)

NoCall == [fn |-> "none", done |-> TRUE]

\* a call about to be made: the function and its arguments
PendingCalls ==
    {[fn |-> "calculate_release_frequency", done |-> FALSE, time_data |-> td] :
        td \in TimeDataSamples}
    \cup {[fn |-> "assess_documentation_quality", done |-> FALSE, repo_data |-> r,
           package_data |-> p] : r \in RepoFlagSamples, p \in DocPackageSamples}
    \cup {[fn |-> "calculate_activity_score", done |-> FALSE, github_stats |-> g,
           release_frequency |-> f] : g \in StatsSamples, f \in ReleaseSamples}
    \cup {[fn |-> "categorize_framework", done |-> FALSE, package_data |-> p] :
           p \in CategoryPackageSamples}

\* the call returns: the result, and the wall clock the call read
Returned(result) == [done |-> TRUE, clock |-> now, result |-> result] @@ call

CallReleaseFrequency ==
    /\ call.fn = "calculate_release_frequency" /\ ~call.done
    /\ call' = Returned(calculate_release_frequency(call.time_data))
    /\ UNCHANGED << orchVars, now >>

CallDocumentation ==
    /\ call.fn = "assess_documentation_quality" /\ ~call.done
    /\ call' = Returned(assess_documentation_quality(call.repo_data, call.package_data))
    /\ UNCHANGED << orchVars, now >>

CallActivity ==
    /\ call.fn = "calculate_activity_score" /\ ~call.done
    /\ call' = Returned(calculate_activity_score(call.github_stats,
                                                 call.release_frequency, now))
    /\ UNCHANGED << orchVars, now >>

CallCategorize ==
    /\ call.fn = "categorize_framework" /\ ~call.done
    /\ call' = Returned(categorize_framework(call.package_data))
    /\ UNCHANGED << orchVars, now >>

\* the function that returned is called once more on the same arguments;
\* `first` keeps what the first call returned
CallAgain ==
    /\ call.fn # "none" /\ call.done
    /\ "first" \notin DOMAIN call
    /\ call' = [done |-> FALSE, first |-> call.result] @@ call
    /\ UNCHANGED << orchVars, now >>

\* wall-clock time passes, 45 days at a time
Tick ==
    /\ now < NowStart + MaxTicks * 45 * 24
    /\ now' = now + 45 * 24
    /\ UNCHANGED << orchVars, call >>

----------------------------------------------------------------------------
(* collect_frameworks: seeding *)

\* number of search terms (50 in the source)
NumTerms == 2

\* limit passed to search_npm_packages (100 in the source)
SearchLimit == 2

\* largest min_count a run is started with
MaxTarget == 2

\* number of collect_frameworks calls on the one collector
MaxRuns == 2

\* the `package` payloads of search results; the second one carries the
\* name alpha too, with other contents
PackageSamples == {
    [name |-> "alpha", description |-> Str(<<"R","E","S","T"," ","k","i","t">>),
     keywords |-> <<"rest", "api">>,
     links |-> [homepage |-> "https://alpha.example",
                npm |-> "https://www.npmjs.com/package/alpha"]],
    [name |-> "alpha", description |-> Str(<<"o","l","d">>)],
    [name |-> "beta", keywords |-> << >>,
     links |-> [npm |-> "https://www.npmjs.com/package/beta"]],
    [name |-> "gamma", description |-> Str(<< >>)] }

\* a search result object: with a payload, with a payload that has no name,
\* or without the `package` key
ObjectSamples ==
    {[package |-> p] : p \in PackageSamples}
        \cup {[package |-> [description |-> Str(<<"x">>)]], << >>}

\* search_npm_packages(term, limit=100): a list of at most limit objects
SearchResults == UNION {[1..n -> ObjectSamples] : n \in 0..SearchLimit}

\* pkg_obj.get('package', {})
PackageOf(pkg_obj) == Get(pkg_obj, "package", << >>)

\* pkg.get('name', '')
NameOf(pkg_obj) == Get(PackageOf(pkg_obj), "name", "")

\* every payload with a name joins all_packages, seen before or not
RECURSIVE MergePackages_NoSeenTest(_, _, _)
MergePackages_NoSeenTest(packages, all, seen) ==
    IF Len(packages) = 0 THEN [all_packages |-> all, seen_names |-> seen]
    ELSE LET pkg == PackageOf(Head(packages))
             name == NameOf(Head(packages))
         IN  IF name # ""
             THEN MergePackages_NoSeenTest(Tail(packages), Append(all, pkg),
                                           seen \cup {name})
             ELSE MergePackages_NoSeenTest(Tail(packages), all, seen)

\* `for pkg_obj in packages`: a payload joins all_packages when its name is
\* non-empty and not in seen_names
RECURSIVE MergePackages(_, _, _)
MergePackages(packages, all, seen) ==
    IF Len(packages) = 0 THEN [all_packages |-> all, seen_names |-> seen]
    ELSE LET pkg == PackageOf(Head(packages))
             name == NameOf(Head(packages))
         IN  IF name # "" /\ name \notin seen
             THEN MergePackages(Tail(packages), Append(all, pkg), seen \cup {name})
             ELSE MergePackages(Tail(packages), all, seen)

\* history: the positions of `packages` that carry name
Carrying(packages, name) == {i \in 1..Len(packages) : NameOf(packages[i]) = name}

\* history of the searches of the seeding in progress: for every non-empty
\* name surfaced, `first` is the payload of the first object that carried
\* it, `later` the payloads of the objects that carried it after that one,
\* `seeds` the indexes of the search terms whose results carried it
NoteSurfaced(history, packages, term) ==
    LET names == {NameOf(packages[i]) : i \in 1..Len(packages)} \ {""}
    IN  [n \in DOMAIN history \cup names |->
            LET at == Carrying(packages, n)
                here == {PackageOf(packages[i]) : i \in at}
            IN  IF n \in DOMAIN history
                THEN IF at = {} THEN history[n]
                     ELSE [first |-> history[n].first,
                           later |-> history[n].later \cup here,
                           seeds |-> history[n].seeds \cup {term}]
                ELSE [first |-> PackageOf(packages[SetMin(at)]),
                      later |-> {PackageOf(packages[i]) : i \in at \ {SetMin(at)}},
                      seeds |-> {term}]]

\* collect_frameworks(min_count) is called
StartRun ==
    /\ pc \in {"idle", "done"}
    /\ runs < MaxRuns
    /\ runs' = runs + 1
    /\ \E target \in 1..MaxTarget : min_count' = target
    /\ all_packages' = << >>
    /\ seen_names' = {}
    /\ term_idx' = 1
    /\ packages_to_process' = << >>
    /\ idx' = 1
    /\ surfaced' = << >>
    /\ attempts' = << >>
    /\ pc' = "seeding"
    /\ call' = NoCall
    /\ UNCHANGED << frameworks, processed_names, now >>

\* the loop goes through every term
SearchTerm_NoEarlyStop ==
    /\ pc = "seeding"
    /\ term_idx <= NumTerms
    /\ \E packages \in SearchResults :
         LET merged == MergePackages(packages, all_packages, seen_names)
         IN  /\ all_packages' = merged.all_packages
             /\ seen_names' = merged.seen_names
             /\ surfaced' = NoteSurfaced(surfaced, packages, term_idx)
             /\ pc' = IF term_idx = NumTerms THEN "seeded" ELSE "seeding"
    /\ term_idx' = term_idx + 1
    /\ UNCHANGED << frameworks, processed_names, min_count, packages_to_process,
                    idx, runs, attempts, now, call >>

\* one iteration of `for idx, term in enumerate(search_terms, 1)`: search,
\* merge, and leave the loop when 1.5 * min_count candidates are there or
\* the terms are exhausted
SearchTerm ==
    /\ pc = "seeding"
    /\ term_idx <= NumTerms
    /\ \E packages \in SearchResults :
         LET merged == MergePackages(packages, all_packages, seen_names)
         IN  /\ all_packages' = merged.all_packages
             /\ seen_names' = merged.seen_names
             /\ surfaced' = NoteSurfaced(surfaced, packages, term_idx)
             /\ pc' = IF 2 * Len(merged.all_packages) >= 3 * min_count
                         \/ term_idx = NumTerms
                      THEN "seeded" ELSE "seeding"
    /\ term_idx' = term_idx + 1
    /\ UNCHANGED << frameworks, processed_names, min_count, packages_to_process,
                    idx, runs, attempts, now, call >>

\* every candidate is processed
BeginProcessing_All ==
    /\ pc = "seeded"
    /\ packages_to_process' = all_packages
    /\ idx' = 1
    /\ surfaced' = << >>
    /\ pc' = "processing"
    /\ UNCHANGED << frameworks, processed_names, min_count, term_idx, all_packages,
                    seen_names, runs, attempts, now, call >>

\* packages_to_process = all_packages[:min(len(all_packages), min_count)]
BeginProcessing ==
    /\ pc = "seeded"
    /\ packages_to_process' = SubSeq(all_packages, 1, Min(Len(all_packages), min_count))
    /\ idx' = 1
    /\ surfaced' = << >>
    /\ pc' = "processing"
    /\ UNCHANGED << frameworks, processed_names, min_count, term_idx, all_packages,
                    seen_names, runs, attempts, now, call >>

----------------------------------------------------------------------------
(* collect_frameworks: what the endpoints may answer about a candidate *)

GithubUrl ==
    Str(<<"g","i","t","+","h","t","t","p","s",":","/","/","g","i","t","h","u","b",
          ".","c","o","m","/","o","r","g","/","r","e","p","o",".","g","i","t">>)

GitlabUrl ==
    Str(<<"h","t","t","p","s",":","/","/","g","i","t","l","a","b",".","c","o","m",
          "/","o","r","g","/","r","e","p","o">>)

\* registry documents: alpha has one dated version, a repository given as a
\* dict and an author given as a dict
AlphaDetails ==
    ("dist-tags" :> [latest |-> "1.0.0"]) @@
    [name |-> "alpha",
     versions |-> ("1.0.0" :>
         [name |-> Str(<<"a","l","p","h","a">>),
          description |-> Str(<<"R","E","S","T"," ","k","i","t">>),
          keywords |-> <<Str(<<"r","e","s","t">>), Str(<<"a","p","i">>),
                         Str(<<"h","t","t","p">>), Str(<<"k","i","t">>)>>,
          readme |-> [len |-> 600],
          homepage |-> "https://alpha.example",
          license |-> "MIT",
          dependencies |-> [express |-> "^4.0.0"],
          devDependencies |-> [mocha |-> "^9.0.0", chai |-> "^4.0.0"]]),
     time |-> [created |-> Stamp(0), modified |-> Stamp(2400)] @@ ("1.0.0" :> Stamp(0)),
     repository |-> [type |-> "git", url |-> GithubUrl],
     author |-> [name |-> Str(<<"A","n","n">>)],
     maintainers |-> <<[name |-> "ann"], [name |-> "al"]>>]

\* beta has two versions 100 days apart, a repository and an author given as
\* strings
BetaDetails ==
    ("dist-tags" :> [latest |-> "1.1.0"]) @@
    [name |-> "beta",
     versions |-> ("1.0.0" :> [name |-> Str(<<"b","e","t","a">>)]) @@
                  ("1.1.0" :> [name |-> Str(<<"b","e","t","a">>),
                               description |-> Str(<<"W","e","b","s","o","c","k","e","t",
                                                     " ","h","u","b">>),
                               readme |-> [len |-> 2500],
                               license |-> "ISC"]),
     time |-> ("1.0.0" :> Stamp(0)) @@ ("1.1.0" :> Stamp(2400)),
     repository |-> GithubUrl,
     author |-> Str(<<"B","o","b">>),
     maintainers |-> <<[name |-> "bob"]>>]

\* the same document with a JSON null for the description of the latest
\* version
BetaNullDetails ==
    [versions |-> ("1.0.0" :> [name |-> Str(<<"b","e","t","a">>)]) @@
                  ("1.1.0" :> [name |-> Str(<<"b","e","t","a">>),
                               description |-> NoneVal])]
        @@ BetaDetails

\* gamma: the latest tag names no listed version, the repository is not on
\* GitHub, a timestamp is malformed, the author is a JSON null
GammaDetails ==
    ("dist-tags" :> [latest |-> "9.9.9"]) @@
    [name |-> "gamma",
     versions |-> ("0.1.0" :> [name |-> Str(<<"g","a","m","m","a">>),
                               description |-> Str(<<"C","L","I">>)]),
     time |-> ("0.1.0" :> Stamp(0)) @@ ("0.2.0" :> BadStamp),
     repository |-> GitlabUrl,
     author |-> NoneVal]

\* a document with nothing but the name: no dist-tags, versions, time,
\* repository, author or maintainers
BareDetails == [name |-> "gamma"]

\* alpha's document without dist-tags, and with a README, a homepage and
\* keywords of its own beside the versions map
AlphaUntaggedDetails ==
    [k \in DOMAIN AlphaDetails \ {"dist-tags"} |-> AlphaDetails[k]]
        @@ [readme |-> [len |-> 3000],
            homepage |-> "https://alpha.example",
            keywords |-> <<Str(<<"r","e","s","t">>), Str(<<"a","p","i">>),
                           Str(<<"h","t","t","p">>), Str(<<"k","i","t">>)>>]

DetailSamples ==
    [alpha |-> {AlphaDetails, AlphaUntaggedDetails},
     beta |-> {BetaDetails, BetaNullDetails},
     gamma |-> {GammaDetails, BareDetails}]

\* get_package_details(name): None on a failure, else the JSON of the
\* answer, which `if not details` rejects when it is the empty object
get_package_details(name) == {NoneVal, << >>} \cup DetailSamples[name]

\* get_download_stats(name): 0 on a failure; the endpoint fails for gamma
get_download_stats(name) == IF name = "gamma" THEN {0} ELSE {52000}

\* get_package_size(name), in hundredths of a KB: zeros on a failure; the
\* endpoint fails for beta
get_package_size(name) ==
    IF name = "beta" THEN {[package_size_kb |-> 0, gzip_size_kb |-> 0]}
    ELSE {[package_size_kb |-> 12550, gzip_size_kb |-> 4075]}

\* the statistics of the one repository on GitHub
RepoStats ==
    [stars |-> 12000, forks |-> 340, watchers |-> 12000, open_issues |-> 7,
     last_updated |-> Stamp(NowStart - 24), language |-> "JavaScript", size |-> 2048,
     has_wiki |-> TRUE, has_pages |-> FALSE,
     last_commit_date |-> Stamp(NowStart - 24 * 80),
     open_pull_requests |-> 25, contributors_count |-> 60,
     has_ci |-> TRUE, ci_workflows_count |-> 2, has_tests |-> TRUE]

\* `if repo_url`, `if not repo_url`: None and '' are falsy
NoUrl(repo_url) == repo_url = NoneVal \/ Len(repo_url.chars) = 0

\* get_github_stats(repo_url): None without a URL that holds 'github.com',
\* None when the repository request fails, else the statistics
get_github_stats(repo_url) ==
    IF NoUrl(repo_url)
       \/ ~Contains(repo_url.chars, <<"g","i","t","h","u","b",".","c","o","m">>)
    THEN {NoneVal}
    ELSE {NoneVal, RepoStats}

----------------------------------------------------------------------------
(* collect_frameworks: processing *)

\* isinstance(v, str)
IsStr(v) == "kind" \in DOMAIN v /\ v.kind = "str"

\* repo_url: None without a `repository`, its `url` ('' by default) when it
\* is a dict, itself when it is a str, None otherwise
RepoUrl(details) ==
    IF "repository" \notin DOMAIN details THEN NoneVal
    ELSE LET repo_info == details.repository
         IN  IF repo_info = NoneVal THEN NoneVal
             ELSE IF IsStr(repo_info) THEN repo_info
             ELSE Get(repo_info, "url", Str(<< >>))

\* latest_version = details.get('dist-tags', {}).get('latest', '')
LatestVersion(details) == Get(Get(details, "dist-tags", << >>), "latest", "")

\* without the latest version, some listed version is taken
VersionData_AnyListed(details) ==
    LET versions == Get(details, "versions", << >>)
    IN  IF LatestVersion(details) \in DOMAIN versions
        THEN versions[LatestVersion(details)]
        ELSE IF DOMAIN versions = {} THEN << >>
        ELSE versions[CHOOSE v \in DOMAIN versions : TRUE]

\* version_data = details.get('versions', {}).get(latest_version, {})
VersionData(details) == Get(Get(details, "versions", << >>), LatestVersion(details), << >>)

\* author_name: the `name` of a dict, a str itself, '' otherwise
AuthorName(details) ==
    LET author == Get(details, "author", << >>)
    IN  IF author = NoneVal THEN Str(<< >>)
        ELSE IF IsStr(author) THEN author
        ELSE Get(author, "name", Str(<< >>))

\* ', '.join(words)
RECURSIVE JoinComma(_)
JoinComma(words) ==
    IF Len(words) = 0 THEN ""
    ELSE IF Len(words) = 1 THEN words[1]
    ELSE words[1] \o ", " \o JoinComma(Tail(words))

\* s[:n]
Slice(s, n) == SubSeq(s, 1, Min(Len(s), n))

\* the statements of the try block that raise on the documents above:
\* package_data.get('description', '').lower() when the description is None
ProcessingRaises(details) ==
    Get(VersionData(details), "description", Str(<< >>)) = NoneVal

\* the dict appended to self.frameworks
FrameworkData(pkg, details, downloads, github_stats, size_info, clock) ==
    LET version_data == VersionData(details)
        release_freq == calculate_release_frequency(Get(details, "time", << >>))
        stats == IF NoStats(github_stats) THEN << >> ELSE github_stats
        links == Get(pkg, "links", << >>)
    IN  [name |-> Get(pkg, "name", ""),
         version |-> LatestVersion(details),
         description |-> Str(Slice(Get(pkg, "description", Str(<< >>)).chars, 500)),
         author |-> AuthorName(details),
         license |-> Get(version_data, "license", ""),
         keywords |-> JoinComma(Slice(Get(pkg, "keywords", << >>), 10)),
         categories |-> JoinComma(categorize_framework(version_data)),
         downloads_last_month |-> downloads,
         github_stars |-> Get(stats, "stars", 0),
         github_forks |-> Get(stats, "forks", 0),
         github_watchers |-> Get(stats, "watchers", 0),
         vulnerabilities |-> 0,
         has_vulnerabilities |-> FALSE,
         package_size_kb |-> Get(size_info, "package_size_kb", 0),
         gzip_size_kb |-> Get(size_info, "gzip_size_kb", 0),
         release_frequency_days |-> Get(release_freq, "release_frequency", 0),
         releases_per_year |-> Get(release_freq, "releases_per_year", 0),
         total_releases |-> Get(release_freq, "total_releases", 0),
         has_tests |-> Get(stats, "has_tests", FALSE),
         has_ci |-> Get(stats, "has_ci", FALSE),
         ci_workflows_count |-> Get(stats, "ci_workflows_count", 0),
         documentation_score |-> assess_documentation_quality(github_stats, version_data),
         has_wiki |-> Get(stats, "has_wiki", FALSE),
         has_pages |-> Get(stats, "has_pages", FALSE),
         last_commit_date |-> Get(stats, "last_commit_date", EmptyStamp),
         last_updated |-> Get(stats, "last_updated", EmptyStamp),
         github_open_issues |-> Get(stats, "open_issues", 0),
         open_pull_requests |-> Get(stats, "open_pull_requests", 0),
         contributors_count |-> Get(stats, "contributors_count", 0),
         activity_score |-> calculate_activity_score(github_stats, release_freq, clock),
         repository |-> RepoUrl(details),
         homepage |-> Get(links, "homepage", ""),
         npm_url |-> Get(links, "npm", ""),
         created_date |-> Get(Get(details, "time", << >>), "created", EmptyStamp),
         modified_date |-> Get(Get(details, "time", << >>), "modified", EmptyStamp),
         github_language |-> Get(stats, "language", ""),
         maintainers |-> Len(Get(details, "maintainers", << >>)),
         dependencies |-> Cardinality(DOMAIN Get(version_data, "dependencies", << >>)),
         dev_dependencies |-> Cardinality(DOMAIN Get(version_data, "devDependencies", << >>))]

\* the candidate of the current iteration of
\* `for idx, pkg in enumerate(packages_to_process, 1)`
InLoop == pc = "processing" /\ idx <= Len(packages_to_process)

\* history: one more iteration, and what it did
Attempted(entry) == Append(attempts, entry)

\* the test of processed_names is missing
AlreadyProcessed_Missing(name) == FALSE

\* `name in self.processed_names`
AlreadyProcessed(name) == name \in processed_names

\* `if name in self.processed_names: continue`
SkipProcessed ==
    /\ InLoop
    /\ LET name == Get(packages_to_process[idx], "name", "")
       IN  /\ AlreadyProcessed(name)
           /\ attempts' = Attempted([name |-> name, outcome |-> "skipped"])
    /\ idx' = idx + 1
    /\ UNCHANGED << frameworks, processed_names, pc, min_count, term_idx, all_packages,
                    seen_names, packages_to_process, runs, surfaced, now, call >>

\* a candidate without details ends the loop
DetailsAbsent_Break ==
    /\ InLoop
    /\ LET name == Get(packages_to_process[idx], "name", "")
       IN  /\ ~AlreadyProcessed(name)
           /\ processed_names' = processed_names \cup {name}
           /\ \E details \in get_package_details(name) :
                /\ details = NoneVal \/ details = << >>
                /\ attempts' = Attempted([name |-> name, outcome |-> "no details",
                                          details |-> details])
    /\ pc' = "done"
    /\ UNCHANGED << frameworks, idx, min_count, term_idx, all_packages, seen_names,
                    packages_to_process, runs, surfaced, now, call >>

\* the name of a candidate without details is not kept
DetailsAbsent_Forgets ==
    /\ InLoop
    /\ LET name == Get(packages_to_process[idx], "name", "")
       IN  /\ ~AlreadyProcessed(name)
           /\ \E details \in get_package_details(name) :
                /\ details = NoneVal \/ details = << >>
                /\ attempts' = Attempted([name |-> name, outcome |-> "no details",
                                          details |-> details])
    /\ idx' = idx + 1
    /\ UNCHANGED << frameworks, processed_names, pc, min_count, term_idx, all_packages,
                    seen_names, packages_to_process, runs, surfaced, now, call >>

\* get_package_details gives None or {}: `if not details: continue`
DetailsAbsent ==
    /\ InLoop
    /\ LET name == Get(packages_to_process[idx], "name", "")
       IN  /\ ~AlreadyProcessed(name)
           /\ processed_names' = processed_names \cup {name}
           /\ \E details \in get_package_details(name) :
                /\ details = NoneVal \/ details = << >>
                /\ attempts' = Attempted([name |-> name, outcome |-> "no details",
                                          details |-> details])
    /\ idx' = idx + 1
    /\ UNCHANGED << frameworks, pc, min_count, term_idx, all_packages, seen_names,
                    packages_to_process, runs, surfaced, now, call >>

\* the exception ends the loop
ProcessingFails_EndsLoop ==
    /\ InLoop
    /\ LET name == Get(packages_to_process[idx], "name", "")
       IN  /\ ~AlreadyProcessed(name)
           /\ processed_names' = processed_names \cup {name}
           /\ \E details \in get_package_details(name) :
                /\ details # NoneVal /\ details # << >>
                /\ ProcessingRaises(details)
                /\ attempts' = Attempted([name |-> name, outcome |-> "raised",
                                          details |-> details])
    /\ pc' = "done"
    /\ UNCHANGED << frameworks, idx, min_count, term_idx, all_packages, seen_names,
                    packages_to_process, runs, surfaced, now, call >>

\* a statement of the try block raises: `except Exception: continue`
ProcessingFails ==
    /\ InLoop
    /\ LET name == Get(packages_to_process[idx], "name", "")
       IN  /\ ~AlreadyProcessed(name)
           /\ processed_names' = processed_names \cup {name}
           /\ \E details \in get_package_details(name) :
                /\ details # NoneVal /\ details # << >>
                /\ ProcessingRaises(details)
                /\ attempts' = Attempted([name |-> name, outcome |-> "raised",
                                          details |-> details])
    /\ idx' = idx + 1
    /\ UNCHANGED << frameworks, pc, min_count, term_idx, all_packages, seen_names,
                    packages_to_process, runs, surfaced, now, call >>

\* the iteration runs to self.frameworks.append(framework_data)
RecordAppended ==
    /\ InLoop
    /\ LET pkg == packages_to_process[idx]
           name == Get(pkg, "name", "")
       IN  /\ ~AlreadyProcessed(name)
           /\ processed_names' = processed_names \cup {name}
           /\ \E details \in get_package_details(name) :
                /\ details # NoneVal /\ details # << >>
                /\ ~ProcessingRaises(details)
                /\ \E downloads \in get_download_stats(name),
                      github_stats \in get_github_stats(RepoUrl(details)),
                      size_info \in get_package_size(name) :
                     /\ frameworks' = Append(frameworks,
                            FrameworkData(pkg, details, downloads, github_stats,
                                          size_info, now))
                     /\ attempts' = Attempted(
                            [name |-> name, outcome |-> "appended", pkg |-> pkg,
                             details |-> details, downloads |-> downloads,
                             github_stats |-> github_stats, size_info |-> size_info,
                             clock |-> now])
    /\ idx' = idx + 1
    /\ UNCHANGED << pc, min_count, term_idx, all_packages, seen_names,
                    packages_to_process, runs, surfaced, now, call >>

\* the loop is over: `return self.frameworks`
Finish ==
    /\ pc = "processing"
    /\ idx > Len(packages_to_process)
    /\ pc' = "done"
    /\ UNCHANGED << frameworks, processed_names, min_count, term_idx, all_packages,
                    seen_names, packages_to_process, idx, runs, surfaced, attempts,
                    now, call >>

----------------------------------------------------------------------------
(* Exporters and summary: `call` notes what the last one wrote or returned *)

\* the Records that pass the filter of a "production" slice, by name
ProductionReady(min_doc, min_activity) ==
    {frameworks[i].name : i \in
        {i \in 1..Len(frameworks) :
            /\ frameworks[i].has_tests
            /\ frameworks[i].has_ci
            /\ frameworks[i].documentation_score >= min_doc
            /\ frameworks[i].activity_score >= min_activity}}

\* the rows are taken out of the list as they are written
save_to_csv_Drains ==
    /\ pc = "done"
    /\ call' = [fn |-> "save_to_csv", done |-> TRUE, written |-> frameworks # << >>,
                rows |-> frameworks]
    /\ frameworks' = << >>
    /\ UNCHANGED << processed_names, pc, min_count, term_idx, all_packages, seen_names,
                    packages_to_process, idx, runs, surfaced, attempts, now >>

\* save_to_csv: nothing is written when the list is empty, else one row per
\* Record, in list order
save_to_csv ==
    /\ pc = "done"
    /\ call' = [fn |-> "save_to_csv", done |-> TRUE, written |-> frameworks # << >>,
                rows |-> frameworks]
    /\ UNCHANGED << orchVars, now >>

\* save_to_json: json.dump of the list
save_to_json ==
    /\ pc = "done"
    /\ call' = [fn |-> "save_to_json", done |-> TRUE, written |-> frameworks # << >>,
                rows |-> frameworks]
    /\ UNCHANGED << orchVars, now >>

\* save_to_excel: the sheet of all Records, and the names on the sheet
\* "Best for Production" (documentation >= 3, activity >= 50)
save_to_excel ==
    /\ pc = "done"
    /\ call' = [fn |-> "save_to_excel", done |-> TRUE, written |-> frameworks # << >>,
                rows |-> frameworks, production |-> ProductionReady(30, 50)]
    /\ UNCHANGED << orchVars, now >>

\* get_summary_statistics: None when the list is empty, else the data frame
\* of the Records; its production-ready list asks for documentation >= 4
\* and activity >= 60
get_summary_statistics ==
    /\ pc = "done"
    /\ call' = [fn |-> "get_summary_statistics", done |-> TRUE,
                result |-> IF frameworks = << >> THEN NoneVal ELSE [rows |-> frameworks],
                production |-> ProductionReady(40, 60)]
    /\ UNCHANGED << orchVars, now >>

----------------------------------------------------------------------------
(* get_github_stats, request by request *)

\* text.replace(word, ''): every occurrence of word, from the left, is taken out
RECURSIVE Remove(_, _)
Remove(text, word) ==
    IF Len(text) < Len(word) THEN text
    ELSE IF SubSeq(text, 1, Len(word)) = word
         THEN Remove(SubSeq(text, Len(word) + 1, Len(text)), word)
         ELSE <<Head(text)>> \o Remove(Tail(text), word)

\* text.split(sep), sep one character
RECURSIVE Split(_, _)
Split(text, sep) ==
    IF \A i \in 1..Len(text) : text[i] # sep THEN <<text>>
    ELSE LET i == CHOOSE i \in 1..Len(text) :
                      text[i] = sep /\ \A j \in 1..(i - 1) : text[j] # sep
         IN  <<SubSeq(text, 1, i - 1)>> \o Split(SubSeq(text, i + 1, Len(text)), sep)

\* parts = repo_url.replace('https://github.com/', '')
\*             .replace('git://github.com/', '').replace('.git', '').split('/')
UrlParts(repo_url) ==
    Split(Remove(Remove(Remove(repo_url.chars,
                               <<"h","t","t","p","s",":","/","/","g","i","t","h","u","b",".","c","o","m","/">>),
                        <<"g","i","t",":","/","/","g","i","t","h","u","b",".","c","o","m","/">>),
                 <<".","g","i","t">>),
          "/")

\* repository URLs: none, '', another host, the host alone, an owner
\* alone, owner/name behind the usual prefixes, an owner with an empty
\* name, and the ssh form
UrlSamples ==
    {NoneVal, Str(<< >>), GitlabUrl, GithubUrl,
     Str(<<"g","i","t","h","u","b",".","c","o","m">>),
     Str(<<"h","t","t","p","s",":","/","/","g","i","t","h","u","b",".","c","o","m","/","o","r","g">>),
     Str(<<"h","t","t","p","s",":","/","/","g","i","t","h","u","b",".","c","o","m","/","o","r","g","/","r","e","p","o">>),
     Str(<<"g","i","t",":","/","/","g","i","t","h","u","b",".","c","o","m","/","o","r","g","/","r","e","p","o",".","g","i","t">>),
     Str(<<"h","t","t","p","s",":","/","/","g","i","t","h","u","b",".","c","o","m","/","o","r","g","/","o","r","g",".","g","i","t","h","u","b",".","i","o">>),
     Str(<<"h","t","t","p","s",":","/","/","g","i","t","h","u","b",".","c","o","m","/","o","r","g","/">>),
     Str(<<"g","i","t","@","g","i","t","h","u","b",".","c","o","m",":","o","r","g","/","r","e","p","o",".","g","i","t">>)}

Ok(data) == [kind |-> "response", status |-> 200, data |-> data, headers |-> << >>]

Status(code) == [kind |-> "response", status |-> code, data |-> << >>, headers |-> << >>]

Exception == [kind |-> "exception"]

\* the JSON of GET /repos/{owner}/{repo}
RepoData ==
    [stargazers_count |-> 12000, forks_count |-> 340, watchers_count |-> 12000,
     open_issues_count |-> 7, updated_at |-> Stamp(NowStart - 24),
     language |-> "JavaScript", size |-> 2048, has_wiki |-> TRUE, has_pages |-> FALSE]

\* answers to the six requests of one call: each request succeeds with a
\* body, succeeds with an empty or unexpected body, is refused, or raises
AnswerSamples ==
    [repo : {Ok(RepoData), Ok(<< >>), Status(404), Exception},
     commits : {Ok(<<[commit |-> [committer |-> [date |-> Stamp(NowStart - 24 * 80)]]]>>),
                Ok(<< >>), Ok(<<[sha |-> "0a1b"]>>), Status(409), Exception},
     pulls : {Ok([i \in 1..25 |-> [number |-> i]]), Status(403), Exception},
     contributors : {[Ok(<<[login |-> "ann"]>>) EXCEPT
                         !.headers = [Link |-> [last |-> TRUE, pages |-> <<60>>]]],
                     Ok(<<[login |-> "ann"], [login |-> "bob"]>>),
                     Status(403), Exception},
     workflows : {Ok([total_count |-> 2]), Ok(<< >>), Status(404), Exception},
     contents : {Ok(<<[name |-> Str(<<"s","r","c">>), type |-> "dir"],
                      [name |-> Str(<<"_","_","T","e","s","t","s","_","_">>), type |-> "dir"]>>),
                 Ok(<<[name |-> Str(<<"t","e","s","t",".","j","s">>), type |-> "file"],
                      [name |-> Str(<<"s","p","e","c","s">>), type |-> "dir"]>>),
                 Ok(<<[name |-> Str(<<"t","e","s","t",".","j","s">>), type |-> "file"],
                      [name |-> Str(<<"l","i","b">>), type |-> "dir"]>>),
                 Status(404), Exception}]

\* every request answered with its first sample
AllAnswered ==
    CHOOSE a \in AnswerSamples :
        /\ a.repo = Ok(RepoData)
        /\ \A r \in DOMAIN a : a[r].kind = "response" /\ a[r].status = 200
        /\ Len(a.commits.data) = 1 /\ "commit" \in DOMAIN a.commits.data[1]
        /\ a.contributors.headers # << >>
        /\ a.workflows.data # << >>
        /\ Len(a.contents.data) = 2 /\ a.contents.data[1].name.chars = <<"s","r","c">>

\* requests.get(...) of one resource of the repository, as the trace notes it
Request(resource, parts) ==
    [ev |-> "request", resource |-> resource, owner |-> parts[1], repo |-> parts[2]]

\* time.sleep(0.2)
Sleep == [ev |-> "sleep", tenths |-> 2]

\* the primary fields of stats
PrimaryFields(repo_data) ==
    [stars |-> Get(repo_data, "stargazers_count", 0),
     forks |-> Get(repo_data, "forks_count", 0),
     watchers |-> Get(repo_data, "watchers_count", 0),
     open_issues |-> Get(repo_data, "open_issues_count", 0),
     last_updated |-> Get(repo_data, "updated_at", EmptyStamp),
     language |-> Get(repo_data, "language", ""),
     size |-> Get(repo_data, "size", 0),
     has_wiki |-> Get(repo_data, "has_wiki", FALSE),
     has_pages |-> Get(repo_data, "has_pages", FALSE)]

\* A secondary section gives the fields it sets and whether its
\* time.sleep(0.2), the last statement of its try block, was reached.

\* "Get commit activity"
LastCommit(answer) ==
    IF answer.kind = "exception"
    THEN [fields |-> [last_commit_date |-> EmptyStamp], slept |-> FALSE]
    ELSE IF answer.status = 200 /\ Len(answer.data) > 0
    THEN LET first == answer.data[1]
         IN  IF /\ "commit" \in DOMAIN first
                /\ "committer" \in DOMAIN first.commit
                /\ "date" \in DOMAIN first.commit.committer
             THEN [fields |-> [last_commit_date |-> first.commit.committer.date],
                   slept |-> TRUE]
             ELSE [fields |-> [last_commit_date |-> EmptyStamp], slept |-> FALSE]
    ELSE [fields |-> [last_commit_date |-> EmptyStamp], slept |-> TRUE]

\* a refused request leaves -1
OpenPullRequests_Sentinel(answer) ==
    IF answer.kind = "exception"
    THEN [fields |-> [open_pull_requests |-> 0], slept |-> FALSE]
    ELSE [fields |-> [open_pull_requests |->
                         IF answer.status = 200 THEN Len(answer.data) ELSE 0 - 1],
          slept |-> TRUE]

\* "Get pull requests"
OpenPullRequests(answer) ==
    IF answer.kind = "exception"
    THEN [fields |-> [open_pull_requests |-> 0], slept |-> FALSE]
    ELSE [fields |-> [open_pull_requests |->
                         IF answer.status = 200 THEN Len(answer.data) ELSE 0],
          slept |-> TRUE]

\* "Get contributors count": the page number of rel="last" of the Link
\* header when the header holds one, else the length of the page
Contributors(answer) ==
    IF answer.kind = "exception"
    THEN [fields |-> [contributors_count |-> 0], slept |-> FALSE]
    ELSE IF answer.status = 200
    THEN LET link_header == Get(answer.headers, "Link", [last |-> FALSE, pages |-> << >>])
         IN  [fields |-> [contributors_count |->
                             IF link_header.last /\ Len(link_header.pages) > 0
                             THEN link_header.pages[1] ELSE Len(answer.data)],
              slept |-> TRUE]
    ELSE [fields |-> [contributors_count |-> 0], slept |-> TRUE]

\* "Check for CI/CD"
Workflows(answer) ==
    IF answer.kind = "exception"
    THEN [fields |-> [has_ci |-> FALSE, ci_workflows_count |-> 0], slept |-> FALSE]
    ELSE IF answer.status = 200
    THEN [fields |-> [has_ci |-> Get(answer.data, "total_count", 0) > 0,
                      ci_workflows_count |-> Get(answer.data, "total_count", 0)],
          slept |-> TRUE]
    ELSE [fields |-> [has_ci |-> FALSE, ci_workflows_count |-> 0], slept |-> TRUE]

TestIndicators ==
    {<<"t","e","s","t">>, <<"t","e","s","t","s">>, <<"_","_","t","e","s","t","s","_","_">>,
     <<"s","p","e","c">>, <<"s","p","e","c","s">>}

\* "Check for tests": a top-level directory with a test-indicating name
Tests(answer) ==
    IF answer.kind = "exception"
    THEN [fields |-> [has_tests |-> FALSE], slept |-> FALSE]
    ELSE IF answer.status = 200
    THEN [fields |-> [has_tests |->
                         \E i \in 1..Len(answer.data) :
                             /\ answer.data[i].type = "dir"
                             /\ \/ Lower(answer.data[i].name.chars) \in TestIndicators
                                \/ Contains(Lower(answer.data[i].name.chars),
                                            <<"t","e","s","t">>)],
          slept |-> TRUE]
    ELSE [fields |-> [has_tests |-> FALSE], slept |-> TRUE]

\* a url that names some other host is taken as well
OtherHost_Accepted(repo_url) == FALSE

\* 'github.com' not in repo_url
OtherHost(repo_url) ==
    ~Contains(repo_url.chars, <<"g","i","t","h","u","b",".","c","o","m">>)

\* get_github_stats(repo_url) when the requests are answered by `answers`:
\* what it returns, and the requests and sleeps in the order they happen
GithubStatsRun(repo_url, answers) ==
    IF NoUrl(repo_url) \/ OtherHost(repo_url)
    THEN [result |-> NoneVal, trace |-> << >>]
    ELSE LET parts == UrlParts(repo_url)
         IN  IF Len(parts) < 2 THEN [result |-> NoneVal, trace |-> << >>]
             ELSE IF answers.repo.kind = "exception" \/ answers.repo.status # 200
             THEN [result |-> NoneVal, trace |-> <<Request("repo", parts)>>]
             ELSE LET commits == LastCommit(answers.commits)
                      pulls == OpenPullRequests(answers.pulls)
                      contributors == Contributors(answers.contributors)
                      workflows == Workflows(answers.workflows)
                      contents == Tests(answers.contents)
                      Section(resource, section) ==
                          <<Request(resource, parts)>>
                              \o (IF section.slept THEN <<Sleep>> ELSE << >>)
                 IN  [result |-> PrimaryFields(answers.repo.data) @@ commits.fields
                                    @@ pulls.fields @@ contributors.fields
                                    @@ workflows.fields @@ contents.fields,
                      trace |-> <<Request("repo", parts)>>
                                    \o Section("commits", commits)
                                    \o Section("pulls", pulls)
                                    \o Section("contributors", contributors)
                                    \o Section("workflows", workflows)
                                    \o Section("contents", contents)]

\* the calls of get_github_stats of the model: every URL with the primary
\* request answered each way, and one URL with every combination of answers
GithubCalls ==
    {[fn |-> "get_github_stats", done |-> FALSE, repo_url |-> u, answers |-> a] :
        u \in UrlSamples, a \in {[AllAnswered EXCEPT !.repo = r] : r \in {Ok(RepoData), Status(404)}}}
    \cup {[fn |-> "get_github_stats", done |-> FALSE, repo_url |-> GithubUrl, answers |-> a] :
        a \in AnswerSamples}

CallGithubStats ==
    /\ call.fn = "get_github_stats" /\ ~call.done
    /\ LET run == GithubStatsRun(call.repo_url, call.answers)
       IN  call' = [trace |-> run.trace] @@ Returned(run.result)
    /\ UNCHANGED << orchVars, now >>

----------------------------------------------------------------------------
(* search_npm_packages, one page request at a time *)

\* `size` of a request and the step of `offset`
PageSize == 250

\* largest number of objects on a page of the model
MaxPage == 2

\* what requests.get(url, params=params, timeout=15) may give: a response
\* with a status and a JSON body, or an exception (timeout, connection
\* error, a body that is not JSON)
PageResponses ==
    {[kind |-> "response", status |-> 200, data |-> [objects |-> page]] :
        page \in UNION {[1..n -> ObjectSamples] : n \in 0..MaxPage}}
    \cup {[kind |-> "response", status |-> 200, data |-> << >>],
          [kind |-> "response", status |-> 429, data |-> << >>],
          [kind |-> "response", status |-> 500, data |-> << >>],
          [kind |-> "exception"]}

\* search_npm_packages(keywords, limit) is entered: all_packages = [],
\* offset = 0; `requests` and `answers` are the history of the `from`
\* parameters sent and of what came back
SearchCalls ==
    {[fn |-> "search_npm_packages", done |-> FALSE, limit |-> l,
      all_packages |-> << >>, offset |-> 0, broke |-> FALSE,
      requests |-> << >>, answers |-> << >>] : l \in 0..SearchLimit}

\* a failure empties the list
SearchRequest_DropOnFailure ==
    /\ call.fn = "search_npm_packages" /\ ~call.done /\ ~call.broke
    /\ Len(call.all_packages) < call.limit
    /\ \E response \in PageResponses :
         LET objects == IF response.kind = "response" /\ response.status = 200
                        THEN Get(response.data, "objects", << >>) ELSE << >>
         IN  call' = [call EXCEPT
                        !.requests = Append(@, call.offset),
                        !.answers = Append(@, response),
                        !.all_packages = IF Len(objects) = 0 THEN << >> ELSE @ \o objects,
                        !.offset = IF Len(objects) = 0 THEN @ ELSE @ + PageSize,
                        !.broke = Len(objects) = 0]
    /\ UNCHANGED << orchVars, now >>

\* one iteration of `while len(all_packages) < limit`: the request, then
\* extend and advance on a non-empty page of a 200 response, break on an
\* empty page, on another status and on an exception
SearchRequest ==
    /\ call.fn = "search_npm_packages" /\ ~call.done /\ ~call.broke
    /\ Len(call.all_packages) < call.limit
    /\ \E response \in PageResponses :
         LET objects == IF response.kind = "response" /\ response.status = 200
                        THEN Get(response.data, "objects", << >>) ELSE << >>
         IN  call' = [call EXCEPT
                        !.requests = Append(@, call.offset),
                        !.answers = Append(@, response),
                        !.all_packages = @ \o objects,
                        !.offset = IF Len(objects) = 0 THEN @ ELSE @ + PageSize,
                        !.broke = Len(objects) = 0]
    /\ UNCHANGED << orchVars, now >>

\* the loop is left: `return all_packages[:limit]`
SearchReturn ==
    /\ call.fn = "search_npm_packages" /\ ~call.done
    /\ call.broke \/ Len(call.all_packages) >= call.limit
    /\ call' = [done |-> TRUE, result |-> Slice(call.all_packages, call.limit)] @@ call
    /\ UNCHANGED << orchVars, now >>

----------------------------------------------------------------------------
(* The dashboard (src/app.py): the two paginated views *)

PAGE_SIZE == 20

SEARCH_COLUMNS ==
    {"name", "description", "author", "keywords", "categories", "repository", "homepage"}

\* an empty cell of the CSV file, as pandas reads it
NaN == [kind |-> "nan"]

\* most lines the CSV file has
MaxRows == 45

\* the lines of the file repeat these three; `index` is the position pandas
\* gives a line, from 0
CsvKinds ==
    << [name |-> Str(<<"a","l","p","h","a">>),
        categories |-> Str(<<"A","P","I"," ","F","r","a","m","e","w","o","r","k">>)],
       [name |-> Str(<<"b","e","t","a">>),
        categories |-> Str(<<"W","e","b"," ","F","r","a","m","e","w","o","r","k">>)],
       [name |-> Str(<<"g","a","m","m","a">>), categories |-> NaN] >>

\* load_csv() on a file of n lines
load_csv(n) == [i \in 1..n |-> [index |-> i - 1] @@ CsvKinds[((i - 1) % 3) + 1]]

\* str(x) of a cell
StrOf(cell) == IF cell.kind = "nan" THEN <<"n","a","n">> ELSE cell.chars

\* str.strip(), for spaces
RECURSIVE Strip(_)
Strip(text) ==
    IF Len(text) = 0 THEN text
    ELSE IF Head(text) = " " THEN Strip(Tail(text))
    ELSE IF text[Len(text)] = " " THEN Strip(SubSeq(text, 1, Len(text) - 1))
    ELSE text

\* urllib.parse.unquote, for the escape %20
RECURSIVE unquote(_)
unquote(text) ==
    IF Len(text) < 3 THEN text
    ELSE IF SubSeq(text, 1, 3) = <<"%","2","0">>
         THEN <<" ">> \o unquote(SubSeq(text, 4, Len(text)))
         ELSE <<Head(text)>> \o unquote(Tail(text))

Digits == <<"0","1","2","3","4","5","6","7","8","9">>

\* the value of a text of digits
RECURSIVE DigitsValue(_)
DigitsValue(text) ==
    IF Len(text) = 0 THEN 0
    ELSE 10 * DigitsValue(SubSeq(text, 1, Len(text) - 1))
           + (CHOOSE d \in 0..9 : Digits[d + 1] = text[Len(text)])

\* int(text) does not raise ValueError: an optional sign, then digits
IsIntText(text) ==
    LET body == IF Len(text) > 0 /\ Head(text) \in {"-", "+"} THEN Tail(text) ELSE text
    IN  Len(body) > 0 /\ \A i \in 1..Len(body) : \E d \in 1..10 : Digits[d] = body[i]

\* int(text)
IntOf(text) ==
    IF Head(text) = "-" THEN 0 - DigitsValue(Tail(text))
    ELSE IF Head(text) = "+" THEN DigitsValue(Tail(text))
    ELSE DigitsValue(text)

\* request.args.get('page', 1, type=int): the default when the parameter is
\* missing or is no integer
PageArg(args) ==
    IF "page" \notin DOMAIN args THEN 1
    ELSE IF ~IsIntText(args.page) THEN 1
    ELSE IntOf(args.page)

\* row_search(row): q.lower() in str(row.get(col, '')).lower() for a column
\* of SEARCH_COLUMNS that the row has
row_search(row, q) ==
    \E col \in SEARCH_COLUMNS :
        col \in DOMAIN row /\ Contains(Lower(StrOf(row[col])), Lower(q))

\* the mask of kategori_detail: the category in str(x).lower(), False for an
\* empty cell
CategoryMask(row, nama_kategori_decoded) ==
    IF row.categories.kind = "nan" THEN FALSE
    ELSE Contains(Lower(StrOf(row.categories)), Lower(nama_kategori_decoded))

\* df.iloc[start:stop]: a negative bound counts from the end, and every
\* bound is clipped to the frame
ILoc(df, start, stop) ==
    LET n == Len(df)
        Clip(b) == IF b < 0 THEN (IF b + n < 0 THEN 0 ELSE b + n)
                   ELSE IF b > n THEN n ELSE b
    IN  SubSeq(df, Clip(start) + 1, Clip(stop))

\* max(1, math.ceil(total_data / PAGE_SIZE))
TotalPages(total_data) ==
    LET ceil == (total_data + PAGE_SIZE - 1) \div PAGE_SIZE
    IN  IF ceil < 1 THEN 1 ELSE ceil

\* the texts given for `page`
PageTexts ==
    {<<"-","2">>, <<"-","1">>, <<"0">>, <<"1">>, <<"2">>, <<"3">>, <<"4">>, <<"x">>}

\* the requests of the model: a file of up to MaxRows lines, the page given
\* or not, a query or a category
ViewCalls ==
    {[fn |-> "show_dataset", done |-> FALSE, rows |-> n, args |-> p @@ [q |-> q]] :
        n \in 0..MaxRows,
        p \in {<< >>} \cup {[page |-> t] : t \in PageTexts},
        q \in {<< >>, <<" ","w","e","b"," ">>, <<"A","m","m">>}}
    \cup
    {[fn |-> "kategori_detail", done |-> FALSE, rows |-> n, args |-> p,
      nama_kategori |-> c] :
        n \in 0..MaxRows,
        p \in {<< >>} \cup {[page |-> t] : t \in PageTexts},
        c \in {<<"f","r","a","m","e","w","o","r","k">>,
               <<"A","P","I","%","2","0","F","r","a","m","e","w","o","r","k">>,
               <<"c","l","i">>}}

\* GET /
show_dataset ==
    /\ call.fn = "show_dataset" /\ ~call.done
    /\ LET page == PageArg(call.args)
           q == Strip(Get(call.args, "q", << >>))
           df == load_csv(call.rows)
           df_search == IF q # << >>
                        THEN SelectSeq(df, LAMBDA row : row_search(row, q))
                        ELSE df
           total_data == Len(df_search)
           total_pages == TotalPages(total_data)
           data == ILoc(df_search, (page - 1) * PAGE_SIZE, page * PAGE_SIZE)
       IN  call' = [done |-> TRUE,
                    template |-> [data |-> data, page |-> page,
                                  total_pages |-> total_pages, q |-> q,
                                  filter_category |-> NoneVal]] @@ call
    /\ UNCHANGED << orchVars, now >>

\* GET /kategori/<nama_kategori>; the file has the column `categories`
kategori_detail ==
    /\ call.fn = "kategori_detail" /\ ~call.done
    /\ LET page == PageArg(call.args)
           nama_kategori_decoded == unquote(call.nama_kategori)
           df == load_csv(call.rows)
           df_cat == SelectSeq(df, LAMBDA row : CategoryMask(row, nama_kategori_decoded))
           total_data == Len(df_cat)
           total_pages == TotalPages(total_data)
           data == ILoc(df_cat, (page - 1) * PAGE_SIZE, page * PAGE_SIZE)
       IN  call' = [done |-> TRUE,
                    template |-> [data |-> data, page |-> page,
                                  total_pages |-> total_pages, q |-> << >>,
                                  filter_category |-> nama_kategori_decoded]] @@ call
    /\ UNCHANGED << orchVars, now >>

----------------------------------------------------------------------------
(* Specifications *)

\* NodeJSFrameworkCollector.__init__; the variables of collect_frameworks do
\* not exist yet and hold the values collect_frameworks gives them first
Init ==
    /\ frameworks = << >>
    /\ processed_names = {}
    /\ pc = "idle"
    /\ min_count = 0
    /\ term_idx = 1
    /\ all_packages = << >>
    /\ seen_names = {}
    /\ packages_to_process = << >>
    /\ idx = 1
    /\ runs = 0
    /\ surfaced = << >>
    /\ attempts = << >>
    /\ now = NowStart
    /\ call = NoCall

\* a scoring function is about to be called on arguments of the sample sets
MetricsInit ==
    /\ frameworks = << >>
    /\ processed_names = {}
    /\ pc = "idle"
    /\ min_count = 0
    /\ term_idx = 1
    /\ all_packages = << >>
    /\ seen_names = {}
    /\ packages_to_process = << >>
    /\ idx = 1
    /\ runs = 0
    /\ surfaced = << >>
    /\ attempts = << >>
    /\ now = NowStart
    /\ call \in PendingCalls \cup GithubCalls

MetricsNext ==
    \/ CallReleaseFrequency
    \/ CallDocumentation
    \/ CallActivity
    \/ CallCategorize
    \/ CallGithubStats
    \/ CallAgain
    \/ Tick

SpecMetrics == MetricsInit /\ [][MetricsNext]_vars

\* search_npm_packages is about to be called
SearchInit ==
    /\ frameworks = << >>
    /\ processed_names = {}
    /\ pc = "idle"
    /\ min_count = 0
    /\ term_idx = 1
    /\ all_packages = << >>
    /\ seen_names = {}
    /\ packages_to_process = << >>
    /\ idx = 1
    /\ runs = 0
    /\ surfaced = << >>
    /\ attempts = << >>
    /\ now = NowStart
    /\ call \in SearchCalls

SearchNext ==
    \/ SearchRequest
    \/ SearchReturn

\* the interpreter keeps executing the call
SpecSearch == SearchInit /\ [][SearchNext]_vars /\ WF_vars(SearchNext)

Next ==
    \/ StartRun
    \/ SearchTerm
    \/ BeginProcessing
    \/ SkipProcessed
    \/ DetailsAbsent
    \/ ProcessingFails
    \/ RecordAppended
    \/ Finish
    \/ save_to_csv
    \/ save_to_json
    \/ save_to_excel
    \/ get_summary_statistics
    \/ Tick

Spec == Init /\ [][Next]_vars

\* a step of the run in progress
RunStep ==
    \/ SearchTerm
    \/ BeginProcessing
    \/ SkipProcessed
    \/ DetailsAbsent
    \/ ProcessingFails
    \/ RecordAppended
    \/ Finish

\* a run that was started goes on: the control flow is sequential, every
\* request has a timeout and every sleep ends
SpecRun == Init /\ [][StartRun \/ RunStep]_vars /\ WF_vars(RunStep)

\* a request for one of the two views has arrived
AppInit ==
    /\ frameworks = << >>
    /\ processed_names = {}
    /\ pc = "idle"
    /\ min_count = 0
    /\ term_idx = 1
    /\ all_packages = << >>
    /\ seen_names = {}
    /\ packages_to_process = << >>
    /\ idx = 1
    /\ runs = 0
    /\ surfaced = << >>
    /\ attempts = << >>
    /\ now = NowStart
    /\ call \in ViewCalls

AppNext ==
    \/ show_dataset
    \/ kategori_detail

SpecApp == AppInit /\ [][AppNext]_vars

----------------------------------------------------------------------------
(* Properties *)

\* C1: after any sequence of collect_frameworks runs on one collector, no
\* two Records of self.frameworks have the same name.
C1_UniqueNames ==
    \A i, j \in 1..Len(frameworks) :
        frameworks[i].name = frameworks[j].name => i = j

\* a second run found a name again that the first run had processed, and
\* two Records are there
C1_Witness ==
    /\ runs = 2
    /\ pc = "done"
    /\ Len(frameworks) >= 2
    /\ \E a \in 1..Len(attempts) :
         /\ attempts[a].outcome = "skipped"
         /\ \E i \in 1..Len(frameworks) : frameworks[i].name = attempts[a].name

\* C2: the documentation score is at least 0, at most 5 and a multiple of
\* 0.5 (the score is held in tenths), whatever the README, the homepage, the
\* repository flags and the keywords.
C2_DocScoreRange ==
    (call.fn = "assess_documentation_quality" /\ call.done)
        => /\ call.result >= 0
           /\ call.result <= 50
           /\ call.result % 5 = 0

\* every bonus is earned: the score is 5
C2_Witness ==
    /\ call.fn = "assess_documentation_quality"
    /\ call.done
    /\ call.result = 50
    /\ call.repo_data = [has_wiki |-> TRUE, has_pages |-> TRUE]

\* C3: the activity score is an integer from 0 to 100, whatever the
\* repository statistics and the release frequency.
C3_ActivityRange ==
    (call.fn = "calculate_activity_score" /\ call.done) => call.result \in 0..100

\* a repository at the upper boundary of every band, scored after the clock
\* has moved
C3_Witness ==
    /\ call.fn = "calculate_activity_score"
    /\ call.done
    /\ call.clock > NowStart
    /\ call.github_stats # NoneVal /\ call.github_stats # << >>
    /\ call.github_stats.stars = 10001
    /\ call.github_stats.contributors_count = 51
    /\ call.result > 0

\* C4: on a version-timestamp map with exactly one dated version (the keys
\* 'created' and 'modified' apart) calculate_release_frequency returns
\* release_frequency = 0, releases_per_year = 0 and total_releases = 1.
C4_OneDatedVersion ==
    (/\ call.fn = "calculate_release_frequency"
     /\ call.done
     /\ Cardinality(DOMAIN call.time_data \ {"created", "modified"}) = 1)
        => /\ call.result.release_frequency = 0
           /\ call.result.releases_per_year = 0
           /\ "total_releases" \in DOMAIN call.result
           /\ call.result.total_releases = 1

\* C5, as amended: with n >= 2 well-formed dated versions whose earliest and
\* latest timestamps are D > 0 whole days apart, release_frequency is a
\* 1-decimal value nearest to D / (n - 1), releases_per_year a 2-decimal
\* value nearest to 365 * (n - 1) / D (either neighbour when the quotient is
\* exactly halfway between two such values) and total_releases is n; two
\* versions 100 days apart give releases_per_year = 3.65.
C5_NearestDecimal ==
    (/\ call.fn = "calculate_release_frequency"
     /\ call.done
     /\ \A k \in DOMAIN call.time_data : call.time_data[k].kind = "ts")
        => LET dated == DOMAIN call.time_data \ {"created", "modified"}
               n == Cardinality(dated)
               hours == {call.time_data[k].h : k \in dated}
               D == IF dated = {} THEN 0
                    ELSE ((CHOOSE x \in hours : \A y \in hours : y <= x)
                          - (CHOOSE x \in hours : \A y \in hours : x <= y)) \div 24
               Abs(x) == IF x < 0 THEN 0 - x ELSE x
               r == call.result
           IN  (n >= 2 /\ D > 0)
                 => /\ 2 * Abs(r.release_frequency * (n - 1) - 10 * D) <= n - 1
                    /\ 2 * Abs(r.releases_per_year * D - 36500 * (n - 1)) <= D
                    /\ r.total_releases = n
                    /\ (n = 2 /\ D = 100) => r.releases_per_year = 365

\* four versions over 200 days: 365 * 3 / 200 = 5.475, and 5.47 is returned
C5_Witness ==
    /\ call.fn = "calculate_release_frequency"
    /\ call.done
    /\ DOMAIN call.time_data = VersionLabels
    /\ \A k \in VersionLabels : call.time_data[k].kind = "ts"
    /\ \E k \in VersionLabels : call.time_data[k].h = 0
    /\ \E k \in VersionLabels : call.time_data[k].h = 4800
    /\ \A k \in VersionLabels : call.time_data[k].h <= 4800
    /\ call.result.releases_per_year = 547
    /\ call.result.release_frequency = 667
    /\ call.result.total_releases = 4

\* C5, as stated: release_frequency is D / (n - 1) rounded to 1 decimal and
\* releases_per_year is 365 * (n - 1) / D rounded to 2 decimals, a quotient
\* exactly halfway between two values going up or to the even neighbour.
C5_RoundedQuotient ==
    (/\ call.fn = "calculate_release_frequency"
     /\ call.done
     /\ \A k \in DOMAIN call.time_data : call.time_data[k].kind = "ts")
        => LET dated == DOMAIN call.time_data \ {"created", "modified"}
               n == Cardinality(dated)
               hours == {call.time_data[k].h : k \in dated}
               D == IF dated = {} THEN 0
                    ELSE ((CHOOSE x \in hours : \A y \in hours : y <= x)
                          - (CHOOSE x \in hours : \A y \in hours : x <= y)) \div 24
               HalfUp(num, den) == (2 * num + den) \div (2 * den)
               HalfEven(num, den) ==
                   IF 2 * (num % den) = den /\ (num \div den) % 2 = 0
                   THEN num \div den ELSE HalfUp(num, den)
               r == call.result
           IN  (n >= 2 /\ D > 0)
                 => /\ r.release_frequency
                          \in {HalfUp(10 * D, n - 1), HalfEven(10 * D, n - 1)}
                    /\ r.releases_per_year
                          \in {HalfUp(36500 * (n - 1), D), HalfEven(36500 * (n - 1), D)}
                    /\ r.total_releases = n

\* C6: with repository statistics present the activity score is
\* min(100, recency + contributors + PRs + releases + stars), every band
\* with strict comparisons: recency <90 days 30, <180 20, <365 10;
\* contributors >50 20, >20 15, >10 10, >5 5; open PRs >20 15, >10 10, >5 5;
\* releases per year >12 20, >6 15, >3 10, >1 5; stars >10000 15, >5000 12,
\* >1000 9, >500 6, >100 3.  12000 stars, 60 contributors, 25 open PRs, 15
\* releases per year and a last commit 10 days back give exactly 100.
C6_BandSum ==
    (/\ call.fn = "calculate_activity_score"
     /\ call.done
     /\ call.github_stats # NoneVal /\ call.github_stats # << >>)
        => LET g == call.github_stats
               rpy == call.release_frequency.releases_per_year
               age == (call.clock - g.last_commit_date.h) \div 24
               recency == IF g.last_commit_date.kind = "ts"
                          THEN 10 * Cardinality({t \in {90, 180, 365} : age < t})
                          ELSE 0
               contributors ==
                   5 * Cardinality({t \in {5, 10, 20, 50} : g.contributors_count > t})
               prs == 5 * Cardinality({t \in {5, 10, 20} : g.open_pull_requests > t})
               releases == 5 * Cardinality({t \in {100, 300, 600, 1200} : rpy > t})
               stars == 3 * Cardinality({t \in {100, 500, 1000, 5000, 10000} : g.stars > t})
               total == recency + contributors + prs + releases + stars
           IN  /\ call.result = (IF total < 100 THEN total ELSE 100)
               /\ (g = ExampleStats /\ rpy = 1500 /\ call.clock = NowStart)
                     => call.result = 100

\* the worked example, scored 10 days after the last commit
C6_Witness ==
    /\ call.fn = "calculate_activity_score"
    /\ call.done
    /\ call.github_stats = ExampleStats
    /\ call.release_frequency.releases_per_year = 1500
    /\ call.clock = NowStart
    /\ call.result = 100

\* C7: without repository statistics calculate_activity_score returns 0 for
\* every release-frequency input, and the Record of a package processed
\* without repository statistics has activity_score = 0.
C7_AbsentStatsScoreZero ==
    /\ \A f \in ReleaseSamples :
          calculate_activity_score(NoneVal, f, now) = 0
    /\ \A a \in 1..Len(attempts) :
          (attempts[a].outcome = "appended" /\ attempts[a].github_stats = NoneVal)
             => /\ \E i \in 1..Len(frameworks) : frameworks[i].name = attempts[a].name
                /\ \A i \in 1..Len(frameworks) :
                      frameworks[i].name = attempts[a].name
                         => frameworks[i].activity_score = 0

\* beta, 3.65 releases a year, recorded while the repository request failed
C7_Witness ==
    \E a \in 1..Len(attempts) :
        /\ attempts[a].outcome = "appended"
        /\ attempts[a].name = "beta"
        /\ attempts[a].github_stats = NoneVal
        /\ \E i \in 1..Len(frameworks) :
             /\ frameworks[i].name = "beta"
             /\ frameworks[i].releases_per_year = 365
             /\ frameworks[i].activity_score = 0

\* C8: categorize_framework returns the labels of exactly the rules of which
\* a keyword occurs, letter case ignored, in description + keywords + name,
\* in the order of the rules and without repeats; it returns ['Other'] if and
\* only if no rule matches, and never 'Other' with another label.  The
\* description "A fast REST API framework with websocket support" gets both
\* 'API Framework' and 'Real-time'.
C8_MatchedLabels ==
    (call.fn = "categorize_framework" /\ call.done)
        => LET p == call.package_data
               Chars(field) == IF field \in DOMAIN p THEN p[field].chars ELSE << >>
               text == Chars("description") \o <<" ">>
                          \o JoinSpace(IF "keywords" \in DOMAIN p THEN p.keywords ELSE << >>)
                          \o <<" ">> \o Chars("name")
               SameLetter(a, b) ==
                   a = b \/ \E i \in 1..Len(UpperChars) :
                               {a, b} = {UpperChars[i], LowerChars[i]}
               Occurs(word) ==
                   \E i \in 1..(Len(text) - Len(word) + 1) :
                       \A j \in 1..Len(word) : SameLetter(text[i + j - 1], word[j])
               matched ==
                   {i \in 1..Len(CategoryRules) :
                       \E w \in 1..Len(CategoryRules[i].words) :
                           Occurs(CategoryRules[i].words[w])}
               RuleOf(label) ==
                   CHOOSE i \in 1..Len(CategoryRules) : CategoryRules[i].label = label
               r == call.result
           IN  /\ (matched = {}) <=> (r = <<"Other">>)
               /\ matched # {}
                    => /\ \A k \in 1..Len(r) : \E i \in matched : r[k] = CategoryRules[i].label
                       /\ \A i \in matched : \E k \in 1..Len(r) : r[k] = CategoryRules[i].label
                       /\ \A k, l \in 1..Len(r) : k < l => RuleOf(r[k]) < RuleOf(r[l])
               /\ ("description" \in DOMAIN p /\ p.description = ExampleDescription)
                    => /\ \E k \in 1..Len(r) : r[k] = "API Framework"
                       /\ \E k \in 1..Len(r) : r[k] = "Real-time"

\* the description of the example, on its own
C8_Witness ==
    /\ call.fn = "categorize_framework"
    /\ call.done
    /\ call.package_data = [description |-> ExampleDescription]
    /\ call.result = <<"API Framework", "Real-time">>

\* C9: while seeding, the merged candidate list holds every name at most
\* once, and the payload kept for a name is the one of the first search
\* result object that carried it.
C9_FirstSeenWins ==
    pc \in {"seeding", "seeded"}
        => /\ \A i, j \in 1..Len(all_packages) :
                 all_packages[i].name = all_packages[j].name => i = j
           /\ {all_packages[i].name : i \in 1..Len(all_packages)} = DOMAIN surfaced
           /\ \A i \in 1..Len(all_packages) :
                 all_packages[i] = surfaced[all_packages[i].name].first

\* two seeds both surfaced alpha, the second with another payload: one
\* candidate alpha, with the first payload
C9_Witness ==
    /\ pc = "seeded"
    /\ "alpha" \in DOMAIN surfaced
    /\ surfaced["alpha"].seeds = {1, 2}
    /\ \E later \in surfaced["alpha"].later : later # surfaced["alpha"].first
    /\ Cardinality({i \in 1..Len(all_packages) : all_packages[i].name = "alpha"}) = 1

C11_SameArgumentsSameResult ==
    (call.done /\ "first" \in DOMAIN call) => call.result = call.first

\* C12: search_npm_packages(keyword, limit) returns, and what it returns has
\* at most limit payloads; the pages are requested at the offsets 0, 250,
\* 500, ...; no request follows an empty page, a non-200 status or an
\* exception; the result is the payloads of the pages received before that
\* point, in order, truncated to limit.
C12_SearchReturns ==
    /\ [](call.fn = "search_npm_packages" =>
            LET Received(i) ==
                    IF call.answers[i].kind = "response" /\ call.answers[i].status = 200
                    THEN Get(call.answers[i].data, "objects", << >>) ELSE << >>
                payloads == [i \in 1..Len(call.answers) |-> Received(i)]
                Flat[i \in 0..Len(payloads)] ==
                    IF i = 0 THEN << >> ELSE Flat[i - 1] \o payloads[i]
                all == Flat[Len(payloads)]
            IN  /\ Len(call.requests) = Len(call.answers)
                /\ \A i \in 1..Len(call.requests) : call.requests[i] = 250 * (i - 1)
                /\ \A i \in 1..(Len(call.answers) - 1) : Len(Received(i)) > 0
                /\ call.done =>
                      /\ Len(call.result) <= call.limit
                      /\ call.result = SubSeq(all, 1, IF Len(all) < call.limit
                                                      THEN Len(all) ELSE call.limit))
    /\ <>(call.done)

\* a page of one object, then a timeout: the one payload is returned
C12_Witness ==
    /\ call.fn = "search_npm_packages"
    /\ call.done
    /\ call.limit = 2
    /\ call.requests = <<0, 250>>
    /\ call.answers[2].kind = "exception"
    /\ Len(call.result) = 1
    /\ call.result[1] = call.answers[1].data.objects[1]

C14_SecondaryFieldsIndependent ==
    (call.fn = "get_github_stats" /\ call.done /\ Len(call.trace) > 0)
        => LET a == call.answers
               r == call.result
               Succeeded(x) == x.kind = "response" /\ x.status = 200
               Dated(x) == /\ Len(x.data) > 0
                           /\ "commit" \in DOMAIN x.data[1]
               tc == IF Succeeded(a.workflows) /\ "total_count" \in DOMAIN a.workflows.data
                     THEN a.workflows.data.total_count ELSE 0
           IN  /\ ~Succeeded(a.repo)
                    => /\ r = NoneVal
                       /\ \A i \in 1..Len(call.trace) :
                             call.trace[i].ev = "request" => call.trace[i].resource = "repo"
               /\ Succeeded(a.repo)
                    => /\ r # NoneVal
                       /\ r.last_commit_date =
                             IF Succeeded(a.commits) /\ Dated(a.commits)
                             THEN a.commits.data[1].commit.committer.date ELSE EmptyStamp
                       /\ r.open_pull_requests =
                             IF Succeeded(a.pulls) THEN Len(a.pulls.data) ELSE 0
                       /\ r.contributors_count =
                             IF ~Succeeded(a.contributors) THEN 0
                             ELSE IF "Link" \in DOMAIN a.contributors.headers
                                  THEN a.contributors.headers.Link.pages[1]
                                  ELSE Len(a.contributors.data)
                       /\ r.ci_workflows_count = tc
                       /\ r.has_ci = (tc > 0)
                       /\ r.has_tests =
                             (/\ Succeeded(a.contents)
                              /\ \E i \in 1..Len(a.contents.data) :
                                    /\ a.contents.data[i].type = "dir"
                                    /\ a.contents.data[i].name.chars
                                          \in {<<"_","_","T","e","s","t","s","_","_">>,
                                               <<"s","p","e","c","s">>})
                       /\ \A f \in {"stars", "forks", "watchers", "open_issues", "size"} :
                             r[f] = IF a.repo.data = << >> THEN 0
                                    ELSE a.repo.data[CASE f = "stars" -> "stargazers_count"
                                                       [] f = "forks" -> "forks_count"
                                                       [] f = "watchers" -> "watchers_count"
                                                       [] f = "open_issues" -> "open_issues_count"
                                                       [] f = "size" -> "size"]
                       /\ r.has_wiki = (a.repo.data # << >> /\ a.repo.data.has_wiki)
                       /\ r.has_pages = (a.repo.data # << >> /\ a.repo.data.has_pages)
                       /\ r.last_updated = IF a.repo.data = << >> THEN EmptyStamp
                                           ELSE a.repo.data.updated_at
                       /\ r.language = IF a.repo.data = << >> THEN "" ELSE a.repo.data.language

\* the commit request raised and the contributor request was refused; the
\* pull requests, the workflows and the test directory are reported all the
\* same
C14_Witness ==
    /\ call.fn = "get_github_stats"
    /\ call.done
    /\ call.answers = [AllAnswered EXCEPT !.commits = Exception,
                                          !.contributors = Status(403)]
    /\ call.result # NoneVal
    /\ call.result.last_commit_date = EmptyStamp
    /\ call.result.contributors_count = 0
    /\ call.result.open_pull_requests = 25
    /\ call.result.has_ci /\ call.result.ci_workflows_count = 2
    /\ call.result.has_tests
    /\ call.result.stars = 12000

\* C15: whatever the searches and the detail, download, size and repository
\* fetches answer, and whichever candidates raise while they are processed,
\* a run of collect_frameworks that was started reaches its return; the
\* iterations of the processing loop are one per candidate to be processed,
\* in order, so every candidate after one that raised is attempted too.
C15_RunReachesDone ==
    /\ [](/\ Len(attempts) <= Len(packages_to_process)
          /\ \A a \in 1..Len(attempts) :
                attempts[a].name = Get(packages_to_process[a], "name", "")
          /\ pc = "done" => Len(attempts) = Len(packages_to_process))
    /\ (pc = "seeding") ~> (pc = "done")

\* the first candidate raised, the second was recorded, the run returned
C15_Witness ==
    /\ pc = "done"
    /\ Len(attempts) = 2
    /\ attempts[1].outcome = "raised"
    /\ attempts[2].outcome = "appended"
    /\ \E i \in 1..Len(frameworks) : frameworks[i].name = attempts[2].name

\* C16: a package whose detail document has no repository, no author, no
\* dist-tags, no maintainers, and for which there are no repository
\* statistics, gets a Record whose repository, author, version and license
\* are empty strings and whose counts and flags are 0 and false.
C16_AbsentFieldsDefault ==
    \A a \in 1..Len(attempts) :
        (/\ attempts[a].outcome = "appended"
         /\ DOMAIN attempts[a].details
               \cap {"repository", "author", "dist-tags", "maintainers"} = {}
         /\ attempts[a].github_stats = NoneVal)
          => \A i \in 1..Len(frameworks) :
                frameworks[i].name = attempts[a].name
                   => /\ frameworks[i].repository = Str(<< >>)
                      /\ frameworks[i].author = Str(<< >>)
                      /\ frameworks[i].version = ""
                      /\ frameworks[i].license = ""
                      /\ frameworks[i].maintainers = 0
                      /\ frameworks[i].dependencies = 0
                      /\ frameworks[i].dev_dependencies = 0
                      /\ frameworks[i].github_stars = 0
                      /\ frameworks[i].github_forks = 0
                      /\ frameworks[i].contributors_count = 0
                      /\ frameworks[i].open_pull_requests = 0
                      /\ frameworks[i].total_releases = 0
                      /\ ~frameworks[i].has_tests
                      /\ ~frameworks[i].has_ci
                      /\ ~frameworks[i].has_wiki

\* C17: the seeds are searched in list order, each at most once: a search
\* is the search of the next seed of the list, the first seed after the
\* start of a run; a search is made only while the merged candidates are
\* fewer than 1.5 x the target; and when seeding is over either that count
\* was reached or every seed of the list was searched.
C17_SeedsInOrderUntilEnough ==
    /\ [][/\ all_packages' # all_packages \/ term_idx' # term_idx
               => \/ pc' = "seeding" /\ pc # "seeding"
                       /\ term_idx' = 1 /\ all_packages' = << >>
                  \/ /\ pc = "seeding"
                     /\ term_idx <= NumTerms
                     /\ term_idx' = term_idx + 1
                     /\ 2 * Len(all_packages) < 3 * min_count
          /\ \A n \in DOMAIN surfaced' :
                n \notin DOMAIN surfaced => surfaced'[n].seeds = {term_idx}]_vars
    /\ [](pc \in {"seeded", "processing", "done"}
            => \/ 2 * Len(all_packages) >= 3 * min_count
               \/ term_idx = NumTerms + 1)

\* a target of 1 and two names from the first seed: the second seed is not
\* searched
C17_Witness ==
    /\ pc = "seeded"
    /\ min_count = 1
    /\ Len(all_packages) = 2
    /\ term_idx = 2
    /\ term_idx <= NumTerms

\* C18: the candidates the processing loop goes through are the first
\* min(target, number of candidates) of the merged list, in its order; what
\* a run appends is at most target Records, at the end of the accumulator
\* and in candidate order; no candidate at a position beyond target is
\* attempted, whatever happened to the candidates before it.
C18_FirstTargetCandidates ==
    pc \in {"processing", "done"}
        => LET n == IF Len(all_packages) < min_count THEN Len(all_packages)
                    ELSE min_count
               appended == {a \in 1..Len(attempts) : attempts[a].outcome = "appended"}
               k == Cardinality(appended)
               Rank(a) == Cardinality({b \in appended : b <= a})
           IN  /\ Len(packages_to_process) = n
               /\ \A i \in 1..n : packages_to_process[i] = all_packages[i]
               /\ Len(attempts) <= n
               /\ \A a \in 1..Len(attempts) :
                     attempts[a].name = Get(all_packages[a], "name", "")
               /\ k <= min_count
               /\ k <= Len(frameworks)
               /\ \A a \in appended :
                     frameworks[Len(frameworks) - k + Rank(a)].name = attempts[a].name

\* a target of 1 and two candidates: the first one had no details, the
\* second one is not attempted and the run appends nothing
C18_Witness ==
    /\ pc = "done"
    /\ min_count = 1
    /\ Len(all_packages) = 2
    /\ Len(attempts) = 1
    /\ attempts[1].outcome = "no details"
    /\ Get(all_packages[2], "name", "") \notin processed_names
    /\ \A i \in 1..Len(frameworks) :
          frameworks[i].name # Get(all_packages[2], "name", "")

\* C19: every step either leaves self.frameworks as it is or appends one
\* Record at its end: no Record is ever removed, moved or changed, whether
\* the step is a candidate that is skipped, one whose processing raises, an
\* exporter or the summary.
C19_AppendOnly ==
    [][\/ frameworks' = frameworks
       \/ /\ Len(frameworks') = Len(frameworks) + 1
          /\ \A i \in 1..Len(frameworks) : frameworks'[i] = frameworks[i]]_vars

\* after a run in which a candidate raised, the exporter wrote the Records
\* and they are all still there
C19_Witness ==
    /\ call.fn = "save_to_excel"
    /\ call.written
    /\ Len(frameworks) >= 1
    /\ call.rows = frameworks
    /\ \E a \in 1..Len(attempts) : attempts[a].outcome = "raised"

C21_QueriesOwnerAndName ==
    (call.fn = "get_github_stats" /\ call.done /\ call.repo_url # NoneVal)
        => LET u == call.repo_url.chars
               host == <<"g","i","t","h","u","b",".","c","o","m">>
               Prefixes == {<<"h","t","t","p","s",":","/","/">> \o host \o <<"/">>,
                            <<"g","i","t",":","/","/">> \o host \o <<"/">>,
                            <<"g","i","t","+","h","t","t","p","s",":","/","/">> \o host \o <<"/">>,
                            <<"g","i","t","@">> \o host \o <<":">>}
               StartsWith(p) == Len(u) >= Len(p) /\ SubSeq(u, 1, Len(p)) = p
               suffix == <<".","g","i","t">>
           IN  \A p \in Prefixes :
                   StartsWith(p)
                     => LET rest == SubSeq(u, Len(p) + 1, Len(u))
                            path == IF /\ Len(rest) >= Len(suffix)
                                       /\ SubSeq(rest, Len(rest) - 3, Len(rest)) = suffix
                                    THEN SubSeq(rest, 1, Len(rest) - 4) ELSE rest
                            pair == Split(path, "/")
                        IN  (Len(pair) = 2 /\ pair[1] # << >> /\ pair[2] # << >>)
                              => /\ Len(call.trace) > 0
                                 /\ \A i \in 1..Len(call.trace) :
                                       call.trace[i].ev = "request"
                                         => /\ call.trace[i].owner = pair[1]
                                            /\ call.trace[i].repo = pair[2]

\* C22: in get_github_stats every secondary request that is sent (commits,
\* pulls, contributors, workflows, contents) is followed by the delay of
\* 0.2 s, whether it succeeded, was refused or raised, before anything else
\* is sent.
C22_DelayAfterEverySecondary ==
    (call.fn = "get_github_stats" /\ call.done)
        => \A i \in 1..Len(call.trace) :
               (call.trace[i].ev = "request" /\ call.trace[i].resource # "repo")
                 => /\ i < Len(call.trace)
                    /\ call.trace[i + 1] = [ev |-> "sleep", tenths |-> 2]

\* C23: a candidate's name enters processed_names with the iteration that
\* fetches its details, whatever comes of the fetch and of the processing,
\* and processed_names never loses a name, so no iteration of this or of a
\* later run fetches a name that was attempted before; and every Record of
\* self.frameworks has its name in processed_names.
C23_AttemptedOnce ==
    /\ [](\A i \in 1..Len(frameworks) : frameworks[i].name \in processed_names)
    /\ [][/\ processed_names \subseteq processed_names'
          /\ (Len(attempts') = Len(attempts) + 1
                 /\ attempts'[Len(attempts')].outcome # "skipped")
               => /\ attempts'[Len(attempts')].name \notin processed_names
                  /\ attempts'[Len(attempts')].name \in processed_names']_vars

\* the second run meets a name whose first attempt gave no Record, and
\* skips it
C23_Witness ==
    /\ runs = 2
    /\ pc = "done"
    /\ \E i \in 1..Len(attempts) :
          /\ attempts[i].outcome = "skipped"
          /\ attempts[i].name \in processed_names
          /\ \A j \in 1..Len(frameworks) : frameworks[j].name # attempts[i].name

\* C24: the categories, the documentation score, the license and the two
\* dependency counts of a Record come from the entry of the versions map
\* that dist-tags.latest names; without dist-tags.latest, or when it names
\* no listed version, they come from an empty document: categories 'Other',
\* license '', both counts 0 and a documentation score of at most 1.0,
\* whatever README, homepage or keywords the detail document and the search
\* payload hold.
C24_LatestEntryDecides ==
    \A a \in 1..Len(attempts) :
        attempts[a].outcome = "appended"
          => LET d == attempts[a].details
                 Named == /\ "dist-tags" \in DOMAIN d
                          /\ "latest" \in DOMAIN d["dist-tags"]
                          /\ "versions" \in DOMAIN d
                          /\ d["dist-tags"].latest \in DOMAIN d.versions
                 entry == IF Named THEN d.versions[d["dist-tags"].latest] ELSE << >>
             IN  \A i \in 1..Len(frameworks) :
                     frameworks[i].name = attempts[a].name
                       => /\ frameworks[i].categories
                                = JoinComma(categorize_framework(entry))
                          /\ frameworks[i].documentation_score
                                = assess_documentation_quality(attempts[a].github_stats, entry)
                          /\ frameworks[i].license
                                = (IF "license" \in DOMAIN entry THEN entry.license ELSE "")
                          /\ frameworks[i].dependencies
                                = (IF "dependencies" \in DOMAIN entry
                                   THEN Cardinality(DOMAIN entry.dependencies) ELSE 0)
                          /\ frameworks[i].dev_dependencies
                                = (IF "devDependencies" \in DOMAIN entry
                                   THEN Cardinality(DOMAIN entry.devDependencies) ELSE 0)
                          /\ ~Named
                                => /\ frameworks[i].categories = "Other"
                                   /\ frameworks[i].license = ""
                                   /\ frameworks[i].dependencies = 0
                                   /\ frameworks[i].dev_dependencies = 0
                                   /\ frameworks[i].documentation_score <= 10

\* alpha's document has no dist-tags but a README of 3000 characters, a
\* homepage and four keywords, its search payload has keywords and a
\* homepage, and its repository has a wiki: the Record is 'Other' with a
\* documentation score of 0.5
C24_Witness ==
    \E a \in 1..Len(attempts) :
        /\ attempts[a].outcome = "appended"
        /\ attempts[a].name = "alpha"
        /\ "dist-tags" \notin DOMAIN attempts[a].details
        /\ attempts[a].details.readme = [len |-> 3000]
        /\ "keywords" \in DOMAIN attempts[a].pkg
        /\ attempts[a].github_stats # NoneVal
        /\ \E i \in 1..Len(frameworks) :
             /\ frameworks[i].name = "alpha"
             /\ frameworks[i].categories = "Other"
             /\ frameworks[i].documentation_score = 5
             /\ frameworks[i].license = ""
             /\ frameworks[i].dependencies = 0
             /\ frameworks[i].keywords # ""

\* C25: in the dataset view and in the category view, for every integer
\* given as `page`, the rows shown are rows (page-1)*20 .. page*20-1 of the
\* filtered rows in file order: a page of 1..total_pages shows its chunk of
\* at most 20 rows, total_pages is max(1, ceil(rows/20)), and every other
\* page, 0 and the negative ones too, shows no rows.
C25_PageShowsItsRows ==
    (/\ call.fn \in {"show_dataset", "kategori_detail"}
     /\ call.done
     /\ "page" \in DOMAIN call.args
     /\ IsIntText(call.args.page))
      => LET page == IntOf(call.args.page)
             df == load_csv(call.rows)
             filtered ==
                 IF call.fn = "kategori_detail"
                 THEN SelectSeq(df, LAMBDA row :
                          CategoryMask(row, call.template.filter_category))
                 ELSE IF call.template.q = << >> THEN df
                 ELSE SelectSeq(df, LAMBDA row : row_search(row, call.template.q))
             rows == Len(filtered)
             pages == IF rows = 0 THEN 1
                      ELSE CHOOSE k \in 1..rows : 20 * (k - 1) < rows /\ rows <= 20 * k
             last == IF page * 20 < rows THEN page * 20 ELSE rows
         IN  /\ call.template.total_pages = pages
             /\ call.template.data =
                   IF page \in 1..pages
                   THEN [i \in 1..(last - (page - 1) * 20) |-> filtered[(page - 1) * 20 + i]]
                   ELSE << >>

====
